---- MODULE Spec2Model ----
(***************************************************************************)
(* Model of rust/models-openai/src/lib.rs: the OpenAI adapter of the       *)
(* generic model-task abstraction.                                         *)
(*                                                                         *)
(*   - perform_task: message generation on the chat endpoint, message      *)
(*     generation with attachments on the responses endpoint (uploads,     *)
(*     splicing, the one-shot vision fallback), image generation;          *)
(*   - list / list_openai_models: the two memoized catalog functions.      *)
(*                                                                         *)
(* Strings whose prefixes or substrings the code inspects are modelled as  *)
(* sequences: identifiers and media types as sequences of characters,      *)
(* error bodies as sequences of words.                                     *)
(***************************************************************************)
EXTENDS Integers, Sequences, FiniteSets, TLC

\* ------------------------------------------------------------------------
\* Strings
\* ------------------------------------------------------------------------

\* Option<T>: None is the empty sequence, Some(x) the one-element sequence
None == <<>>

Some(x) == <<x>>

\* Option::unwrap
Unwrap(o) == o[1]

Min(a, b) == IF a <= b THEN a ELSE b

\* str::starts_with
StartsWith(s, prefix) ==
    /\ Len(prefix) <= Len(s)
    /\ SubSeq(s, 1, Len(prefix)) = prefix

\* str::contains
Contains(s, pattern) ==
    \E i \in 0..(Len(s) - Len(pattern)) :
        SubSeq(s, i + 1, i + Len(pattern)) = pattern

\* The characters of the identifiers used below, in ASCII order.
AsciiOrder ==
    <<"-", ".", "0", "1", "2", "3", "4", "5", "6", "a", "d", "e", "g", "h",
      "i", "l", "m", "n", "o", "p", "r", "s", "t", "w">>

CharOrd(c) == CHOOSE i \in 1..Len(AsciiOrder) : AsciiOrder[i] = c

\* Ord for String: lexicographic comparison, a.cmp(b) = Less
RECURSIVE StrLess(_, _)
StrLess(a, b) ==
    IF b = <<>> THEN FALSE
    ELSE IF a = <<>> THEN TRUE
    ELSE IF Head(a) = Head(b) THEN StrLess(Tail(a), Tail(b))
    ELSE CharOrd(Head(a)) < CharOrd(Head(b))

\* char::to_ascii_lowercase, for the letters that occur in media types
ToAsciiLowercase(c) ==
    CASE c = "A" -> "a" [] c = "C" -> "c" [] c = "D" -> "d" [] c = "F" -> "f"
      [] c = "H" -> "h" [] c = "I" -> "i" [] c = "L" -> "l" [] c = "N" -> "n"
      [] c = "O" -> "o" [] c = "P" -> "p" [] c = "S" -> "s" [] c = "T" -> "t"
      [] OTHER -> c

\* str::to_lowercase
ToLowercase(s) == [i \in 1..Len(s) |-> ToAsciiLowercase(s[i])]

\* str::eq_ignore_ascii_case
EqIgnoreAsciiCase(a, b) ==
    /\ Len(a) = Len(b)
    /\ \A i \in 1..Len(a) : ToAsciiLowercase(a[i]) = ToAsciiLowercase(b[i])

\* ------------------------------------------------------------------------
\* Model identifiers
\* ------------------------------------------------------------------------

Gpt5Prefix  == <<"g", "p", "t", "-", "5">>
Gpt41Prefix == <<"g", "p", "t", "-", "4", ".", "1">>
Gpt4oPrefix == <<"g", "p", "t", "-", "4", "o">>
Gpt4Prefix  == <<"g", "p", "t", "-", "4">>
Gpt35Prefix == <<"g", "p", "t", "-", "3", ".", "5">>
O1Prefix    == <<"o", "1">>
DallEPrefix == <<"d", "a", "l", "l", "-", "e">>
TtsPrefix   == <<"t", "t", "s">>
WhisperPrefix == <<"w", "h", "i", "s", "p", "e", "r">>
VisionWord  == <<"v", "i", "s", "i", "o", "n">>

Gpt5Mini   == Gpt5Prefix \o <<"-", "m", "i", "n", "i">>
Gpt41Mini  == Gpt41Prefix \o <<"-", "m", "i", "n", "i">>
Gpt4oMini  == Gpt4oPrefix \o <<"-", "m", "i", "n", "i">>
Gpt4o      == Gpt4oPrefix
Gpt4o0513  == Gpt4oPrefix \o <<"-", "0", "5", "1", "3">>
Gpt40613   == Gpt4Prefix \o <<"-", "0", "6", "1", "3">>
Whisper1   == WhisperPrefix \o <<"-", "1">>
DallE3     == DallEPrefix \o <<"-", "3">>

\* list(): "Exclude model names that are not versioned"; of the ten names
\* the two that occur in the listings modelled here.
Unversioned == {Gpt4o, Gpt4oMini}

\* list(): the inferred input kinds of a model name
InferInputs(name) ==
    IF \/ Contains(name, VisionWord)
       \/ StartsWith(name, Gpt4oPrefix)
       \/ StartsWith(name, O1Prefix)
       \/ StartsWith(name, Gpt5Prefix)
       \/ StartsWith(name, Gpt41Prefix)
    THEN {"Text", "Image"}
    ELSE IF StartsWith(name, Gpt4Prefix) \/ StartsWith(name, Gpt35Prefix)
    THEN {"Text"}
    ELSE IF StartsWith(name, DallEPrefix) THEN {"Text"}
    ELSE IF StartsWith(name, TtsPrefix) THEN {"Text"}
    ELSE IF StartsWith(name, WhisperPrefix) THEN {"Audio"}
    ELSE {"Text"}

\* list(): the inferred output kinds of a model name
InferOutputs(name) ==
    IF \/ Contains(name, VisionWord)
       \/ StartsWith(name, Gpt4oPrefix)
       \/ StartsWith(name, O1Prefix)
       \/ StartsWith(name, Gpt5Prefix)
       \/ StartsWith(name, Gpt41Prefix)
    THEN {"Text"}
    ELSE IF StartsWith(name, Gpt4Prefix) \/ StartsWith(name, Gpt35Prefix)
    THEN {"Text"}
    ELSE IF StartsWith(name, DallEPrefix) THEN {"Image"}
    ELSE IF StartsWith(name, TtsPrefix) THEN {"Audio"}
    ELSE IF StartsWith(name, WhisperPrefix) THEN {"Text"}
    ELSE {"Text"}

\* list(): the inferred context length of a model name
InferContextLength(name) ==
    IF \/ StartsWith(name, Gpt4Prefix \o <<"-", "1", "1", "0", "6">>)
       \/ StartsWith(name, Gpt4Prefix \o <<"-">> \o VisionWord)
    THEN 128000
    ELSE IF Contains(name, <<"-", "3", "2", "k">>) THEN 32768
    ELSE IF \/ Contains(name, <<"-", "1", "6", "k">>)
            \/ name = Gpt35Prefix \o <<"-", "t", "u", "r", "b", "o", "-", "1", "1", "0", "6">>
    THEN 16385
    ELSE IF StartsWith(name, Gpt4Prefix) THEN 8192
    ELSE IF StartsWith(name, DallEPrefix \o <<"-", "2">>) THEN 1000
    ELSE 4096

\* OpenAIModel::new, as list() calls it for a listed name
OpenAIModel(name) ==
    [model |-> name, context_length |-> InferContextLength(name),
     inputs |-> InferInputs(name), outputs |-> InferOutputs(name)]

\* sorted_by(|a, b| a.id.cmp(&b.id)): a stable insertion sort
RECURSIVE SortedById(_)
SortedById(names) ==
    IF names = <<>> THEN <<>>
    ELSE LET rest == SortedById(SubSeq(names, 1, Len(names) - 1))
             last == names[Len(names)]
             k    == Cardinality({i \in 1..Len(rest) : ~StrLess(last, rest[i])})
         IN  SubSeq(rest, 1, k) \o <<last>> \o SubSeq(rest, k + 1, Len(rest))

\* list(): the models of a raw listing: sorted by id, the unversioned names
\* left out, each with its inferred context length and input and output kinds
ListedModels(data) ==
    LET kept == SelectSeq(SortedById(data), LAMBDA name : name \notin Unversioned)
    IN  [i \in 1..Len(kept) |-> OpenAIModel(kept[i])]

\* ------------------------------------------------------------------------
\* Media types, attachments, messages
\* ------------------------------------------------------------------------

ImageSlash == <<"i", "m", "a", "g", "e", "/">>
AudioSlash == <<"a", "u", "d", "i", "o", "/">>
VideoSlash == <<"v", "i", "d", "e", "o", "/">>
ApplicationPdf ==
    <<"a", "p", "p", "l", "i", "c", "a", "t", "i", "o", "n", "/", "p", "d", "f">>
ImagePng  == ImageSlash \o <<"p", "n", "g">>
TextPlain == <<"t", "e", "x", "t", "/", "p", "l", "a", "i", "n">>

\* should_upload_attachment taking every declared media type
should_upload_attachment_any_type(attachment) ==
    attachment.file.media_type # None

\* should_upload_attachment with every comparison ignoring letter case
should_upload_attachment_lowercased(attachment) ==
    IF attachment.file.media_type = None THEN FALSE
    ELSE LET media_type == ToLowercase(Unwrap(attachment.file.media_type)) IN
         \/ media_type = ApplicationPdf
         \/ StartsWith(media_type, ImageSlash)
         \/ StartsWith(media_type, AudioSlash)
         \/ StartsWith(media_type, VideoSlash)

\* OpenAIModel::should_upload_attachment
should_upload_attachment(attachment) ==
    IF attachment.file.media_type = None THEN FALSE
    ELSE LET media_type == Unwrap(attachment.file.media_type) IN
         \/ EqIgnoreAsciiCase(media_type, ApplicationPdf)
         \/ StartsWith(media_type, ImageSlash)
         \/ StartsWith(media_type, AudioSlash)
         \/ StartsWith(media_type, VideoSlash)

\* The base64 alphabet (STANDARD engine), as far as the contents below use it.
Base64Alphabet == {"a", "G", "k", "h", "i", "Q", "0", "1", "+", "/"}

\* BASE64.decode(..).is_ok(): whole quanta of four symbols, padding only at
\* the end of the last quantum.
IsValidBase64(s) ==
    /\ Len(s) % 4 = 0
    /\ \A i \in 1..Len(s) :
          \/ s[i] \in Base64Alphabet
          \/ /\ s[i] = "="
             /\ i >= Len(s) - 1
             /\ \A j \in i..Len(s) : s[j] = "="

\* attachment_bytes taking the content as it is, whatever the encoding
attachment_bytes_ok_undecoded(attachment) == attachment.file.content # None

\* attachment_bytes(attachment).is_ok()
attachment_bytes_ok(attachment) ==
    LET file == attachment.file IN
    IF file.content = None THEN FALSE
    ELSE IF /\ file.transfer_encoding # None
            /\ EqIgnoreAsciiCase(Unwrap(file.transfer_encoding),
                                 <<"b", "a", "s", "e", "6", "4">>)
    THEN IsValidBase64(Unwrap(file.content))
    ELSE TRUE

\* supports_attachments taking any declared input kind for a capability
supports_attachments_any_input(self) == self.inputs # {}

\* OpenAIModel::supports_attachments
supports_attachments(self) ==
    \/ "Image" \in self.inputs
    \/ "Audio" \in self.inputs
    \/ "Video" \in self.inputs

\* ------------------------------------------------------------------------
\* The vision fallback
\* ------------------------------------------------------------------------

InvalidInput        == <<"Invalid", "input">>
ContextStuffing     == <<"context", "stuffing">>
NoImageInputs       == <<"does", "not", "support", "image", "inputs">>

\* should_retry_with_vision looking at the error body only
should_retry_with_vision_any_model(model, error_body) ==
    \/ /\ Contains(error_body, InvalidInput)
       /\ Contains(error_body, ContextStuffing)
    \/ Contains(error_body, NoImageInputs)

\* should_retry_with_vision with either half of the pair enough
should_retry_with_vision_either_half(model, error_body) ==
    /\ StartsWith(model, Gpt5Prefix) \/ StartsWith(model, Gpt41Prefix)
    /\ \/ Contains(error_body, InvalidInput)
       \/ Contains(error_body, ContextStuffing)
       \/ Contains(error_body, NoImageInputs)

\* OpenAIModel::should_retry_with_vision
should_retry_with_vision(model, error_body) ==
    /\ StartsWith(model, Gpt5Prefix) \/ StartsWith(model, Gpt41Prefix)
    /\ \/ /\ Contains(error_body, InvalidInput)
          /\ Contains(error_body, ContextStuffing)
       \/ Contains(error_body, NoImageInputs)

\* map_to_vision_model with one substitute for both families
map_to_vision_model_one_substitute(model) ==
    IF StartsWith(model, Gpt5Prefix) \/ StartsWith(model, Gpt41Prefix)
    THEN Some(Gpt4oMini)
    ELSE None

\* OpenAIModel::map_to_vision_model
map_to_vision_model(model) ==
    IF StartsWith(model, Gpt5Prefix) THEN Some(Gpt41Mini)
    ELSE IF StartsWith(model, Gpt41Prefix) THEN Some(Gpt4oMini)
    ELSE None

\* ------------------------------------------------------------------------
\* Request translation
\* ------------------------------------------------------------------------

\* Itertools::join
RECURSIVE Join(_, _)
Join(strs, sep) ==
    IF strs = <<>> THEN <<>>
    ELSE IF Len(strs) = 1 THEN strs[1]
    ELSE strs[1] \o sep \o Join(Tail(strs), sep)

IsTextPart(part) == part.type = "Text"

TextsOf(parts) ==
    LET texts == SelectSeq(parts, IsTextPart)
    IN  [i \in 1..Len(texts) |-> texts[i].value]

\* message_generation: one task message as a chat-completion message
ChatMessage(message) ==
    CASE message.role = "System" ->
           [role |-> "system",
            content |-> Join(TextsOf(message.parts), <<"\n", "\n">>)]
      [] message.role = "User" ->
           [role |-> "user",
            content |->
              LET kept == SelectSeq(message.parts,
                            LAMBDA p : p.type \in {"Text", "ImageObject"})
              IN  [i \in 1..Len(kept) |->
                     IF kept[i].type = "Text"
                     THEN [type |-> "text", text |-> kept[i].value]
                     ELSE [type |-> "image_url", url |-> kept[i].value,
                           detail |-> "auto"]]]
      [] message.role = "Model" ->
           [role |-> "assistant",
            content |-> Join(TextsOf(message.parts), <<>>)]

\* message_generation: the CreateChatCompletionRequest
ChatRequest(self, task) ==
    [model |-> self.model,
     messages |-> [i \in 1..Len(task.messages) |-> ChatMessage(task.messages[i])]]

\* OpenAIModel::messages_to_response_input, one message
ResponseMessage(message) ==
    LET role == CASE message.role = "System" -> "system"
                  [] message.role = "User" -> "user"
                  [] message.role = "Model" -> "assistant"
        kept == SelectSeq(message.parts,
                          LAMBDA p : p.type \in {"Text", "ImageObject"})
    IN  [role |-> role,
         content |->
           [i \in 1..Len(kept) |->
              IF kept[i].type = "Text"
              THEN IF role = "assistant"
                   THEN [type |-> "output_text", text |-> kept[i].value]
                   ELSE [type |-> "input_text", text |-> kept[i].value]
              ELSE [type |-> "input_image", file_id |-> None,
                    image_url |-> Some(kept[i].value)]]]

\* messages_to_response_input with the system messages left out of the input
messages_to_response_input_without_system(task) ==
    LET kept == SelectSeq(task.messages, LAMBDA m : m.role # "System")
    IN  [i \in 1..Len(kept) |-> ResponseMessage(kept[i])]

\* OpenAIModel::messages_to_response_input
messages_to_response_input(task) ==
    [i \in 1..Len(task.messages) |-> ResponseMessage(task.messages[i])]

\* UploadedAttachment::to_contents
to_contents(uploaded_attachment) ==
    << [type |-> "input_text",
        text |-> <<"Attachment", uploaded_attachment.alias>>] >>
    \o (IF StartsWith(uploaded_attachment.media_type, ImageSlash)
        THEN << [type |-> "input_image",
                 file_id |-> Some(uploaded_attachment.file_id),
                 image_url |-> None] >>
        ELSE << [type |-> "input_file",
                 file_id |-> uploaded_attachment.file_id] >>)

\* uploaded.iter().flat_map(UploadedAttachment::to_contents)
RECURSIVE AllContents(_)
AllContents(uploaded) ==
    IF uploaded = <<>> THEN <<>>
    ELSE to_contents(Head(uploaded)) \o AllContents(Tail(uploaded))

\* The position of the first user message instead of the last
LastUserPosition_first(messages) ==
    LET users == {i \in 1..Len(messages) : messages[i].role = "user"}
    IN  IF users = {} THEN 0 ELSE CHOOSE i \in users : \A j \in users : i <= j

\* messages.iter().rposition(|message| message.role == "user"), 0 for None
LastUserPosition(messages) ==
    LET users == {i \in 1..Len(messages) : messages[i].role = "user"}
    IN  IF users = {} THEN 0 ELSE CHOOSE i \in users : \A j \in users : j <= i

\* responses_message_generation: the uploaded attachments spliced into the
\* translated messages
SpliceAttachments(messages, uploaded) ==
    LET position == LastUserPosition(messages) IN
    IF position # 0
    THEN IF uploaded # <<>>
         THEN [messages EXCEPT ![position].content = @ \o AllContents(uploaded)]
         ELSE messages
    ELSE IF uploaded # <<>>
         THEN Append(messages, [role |-> "user", content |-> AllContents(uploaded)])
         ELSE messages

\* responses_message_generation: the ResponsesRequest
ResponsesRequest(self, task, uploaded) ==
    [model |-> self.model,
     input |-> SpliceAttachments(messages_to_response_input(task), uploaded),
     temperature |-> task.temperature]

\* The retried request built anew: no file references, no sampling options
RetryRequest_rebuilt(request, mapped) ==
    [model |-> mapped,
     input |-> [i \in 1..Len(request.input) |->
                  [request.input[i] EXCEPT !.content =
                     SelectSeq(@, LAMBDA b : b.type = "input_text")]],
     temperature |-> None]

\* responses_message_generation: request.model = mapped, all that changes
\* before the request is posted again
RetryRequest(request, mapped) == [request EXCEPT !.model = mapped]

\* ------------------------------------------------------------------------
\* Response parsing
\* ------------------------------------------------------------------------

Whitespace == {" ", "\n"}

RECURSIVE TrimStart(_)
TrimStart(s) ==
    IF s # <<>> /\ Head(s) \in Whitespace THEN TrimStart(Tail(s)) ELSE s

RECURSIVE TrimEnd(_)
TrimEnd(s) ==
    IF s # <<>> /\ s[Len(s)] \in Whitespace
    THEN TrimEnd(SubSeq(s, 1, Len(s) - 1))
    ELSE s

\* str::trim
Trim(s) == TrimEnd(TrimStart(s))

\* responses_message_generation: the text segments of the output items
RECURSIVE text_segments(_)
text_segments(output) ==
    IF output = <<>> THEN <<>>
    ELSE LET kept == SelectSeq(Head(output).content,
                       LAMBDA c : c.type \in {"output_text", "summary_text"})
         IN  [i \in 1..Len(kept) |-> kept[i].text] \o text_segments(Tail(output))

\* The joined segments taken untrimmed
ResponseText_untrimmed(output) == Join(text_segments(output), <<"\n">>)

\* responses_message_generation: text_segments.join("\n").trim()
ResponseText(output) == Trim(Join(text_segments(output), <<"\n">>))

\* StatusCode::is_success
is_success(status) == status \in 200..299

\* ------------------------------------------------------------------------
\* Image requests
\* ------------------------------------------------------------------------

\* The ImageSize of a pair taken as (height, width)
ImageSizeOf_transposed(w, h) ==
    CASE w = 256 /\ h = 256 -> Some("S256x256")
      [] w = 512 /\ h = 512 -> Some("S512x512")
      [] w = 1024 /\ h = 1024 -> Some("S1024x1024")
      [] w = 1024 /\ h = 1792 -> Some("S1792x1024")
      [] w = 1792 /\ h = 1024 -> Some("S1024x1792")
      [] OTHER -> None

\* image_generation: the ImageSize of a (w, h) pair, None when unsupported
ImageSizeOf(w, h) ==
    CASE w = 256 /\ h = 256 -> Some("S256x256")
      [] w = 512 /\ h = 512 -> Some("S512x512")
      [] w = 1024 /\ h = 1024 -> Some("S1024x1024")
      [] w = 1024 /\ h = 1792 -> Some("S1024x1792")
      [] w = 1792 /\ h = 1024 -> Some("S1792x1024")
      [] OTHER -> None

Std            == <<"s", "t", "d">>
Standard       == <<"s", "t", "a", "n", "d", "a", "r", "d">>
Hd             == <<"h", "d">>
HighDefinition ==
    <<"h", "i", "g", "h", "-", "d", "e", "f", "i", "n", "i", "t", "i", "o", "n">>
Nat3           == <<"n", "a", "t">>
Natural        == <<"n", "a", "t", "u", "r", "a", "l">>
Viv            == <<"v", "i", "v">>
Vivid          == <<"v", "i", "v", "i", "d">>

\* image_generation: the ImageQuality of a quality string
ImageQualityOf(quality) ==
    LET q == ToLowercase(quality) IN
    IF q = Std \/ q = Standard THEN Some("Standard")
    ELSE IF q = Hd \/ q = HighDefinition THEN Some("HD")
    ELSE None

\* image_generation: the ImageStyle of a style string
ImageStyleOf(style) ==
    LET st == ToLowercase(style) IN
    IF st = Nat3 \/ st = Natural THEN Some("Natural")
    ELSE IF st = Viv \/ st = Vivid THEN Some("Vivid")
    ELSE None

\* ------------------------------------------------------------------------
\* Inputs: tasks, models and the provider's answers
\* ------------------------------------------------------------------------

\* The longest attachment list of a task
MaxAttachments == 2

Range(f) == {f[i] : i \in DOMAIN f}

SeqsUpTo(S, n) == UNION {[1..k -> S] : k \in 0..n}

Base64Word == <<"b", "a", "s", "e", "6", "4">>

\* schema::File, the fields the adapter reads
FilePng ==
    [media_type |-> Some(ImagePng), content |-> Some(<<"a", "G", "k", "=">>),
     transfer_encoding |-> Some(Base64Word)]
FilePdf ==
    [media_type |-> Some(ApplicationPdf), content |-> Some(<<"h", "i">>),
     transfer_encoding |-> None]
FileBadPng ==
    [media_type |-> Some(ImagePng), content |-> Some(<<"a", "G", "k">>),
     transfer_encoding |-> Some(Base64Word)]
FileTxt ==
    [media_type |-> Some(TextPlain), content |-> Some(<<"h", "i">>),
     transfer_encoding |-> None]

FilePdfUpper ==
    [media_type |-> Some(<<"A", "P", "P", "L", "I", "C", "A", "T", "I", "O", "N",
                           "/", "P", "D", "F">>),
     content |-> Some(<<"h", "i">>), transfer_encoding |-> None]
FileImageUpper ==
    [media_type |-> Some(<<"I", "m", "a", "g", "e", "/", "p", "n", "g">>),
     content |-> Some(<<"h", "i">>), transfer_encoding |-> None]
FileWav ==
    [media_type |-> Some(<<"a", "u", "d", "i", "o", "/", "w", "a", "v">>),
     content |-> Some(<<"h", "i">>), transfer_encoding |-> None]
FileMp4 ==
    [media_type |-> Some(<<"v", "i", "d", "e", "o", "/", "m", "p", "4">>),
     content |-> Some(<<"h", "i">>), transfer_encoding |-> None]
FileUntyped ==
    [media_type |-> None, content |-> Some(<<"h", "i">>),
     transfer_encoding |-> None]

FileNoContent ==
    [media_type |-> Some(ApplicationPdf), content |-> None,
     transfer_encoding |-> None]

SampleFiles ==
    {FilePng, FilePdf, FileBadPng, FileTxt, FilePdfUpper, FileImageUpper,
     FileWav, FileMp4, FileUntyped, FileNoContent}

Aliases == <<"a1", "a2", "a3", "a4">>
FileIds == <<"file-1", "file-2", "file-3", "file-4">>

\* InstructionAttachment: an alias, unique within the task, and a file
AttachmentLists ==
    {[i \in 1..Len(files) |-> [alias |-> Aliases[i], file |-> files[i]]] :
        files \in SeqsUpTo(SampleFiles, MaxAttachments)}

TextPart  == [type |-> "Text", value |-> <<"h", "i">>]
ImagePart == [type |-> "ImageObject", value |-> <<"u", "r", "l">>]
AudioPart == [type |-> "AudioObject", value |-> <<"w", "a", "v">>]

SampleMessages ==
    { << [role |-> "User", parts |-> <<TextPart>>] >>,
      << [role |-> "System", parts |-> <<TextPart, AudioPart>>],
         [role |-> "User", parts |-> <<TextPart, ImagePart>>],
         [role |-> "Model", parts |-> <<TextPart>>] >>,
      << [role |-> "System", parts |-> <<TextPart>>] >>,
      << [role |-> "User", parts |-> <<TextPart>>],
         [role |-> "Model", parts |-> <<TextPart>>],
         [role |-> "User", parts |-> <<ImagePart>>],
         [role |-> "Model", parts |-> <<TextPart>>] >> }

\* Widths and heights of a requested image
SampleLengths == {256, 512, 1000, 1024, 1792}

MessageTasks ==
    [kind : {"MessageGeneration"}, messages : SampleMessages,
     attachments : AttachmentLists, dry_run : BOOLEAN,
     image_size : {None}, image_quality : {None}, image_style : {None},
     top_k : {None}, temperature : {None}]

ImageTasks ==
    [kind : {"ImageGeneration"},
     messages : {<< [role |-> "User", parts |-> <<TextPart>>] >>},
     attachments : {<<>>}, dry_run : BOOLEAN,
     image_size : {None} \cup {Some(<<w, h>>) : w \in SampleLengths, h \in SampleLengths},
     image_quality : {None, Some(<<"H", "D">>), Some(<<"u", "l", "t", "r", "a">>)},
     image_style : {None, Some(Vivid), Some(<<"n", "e", "o", "n">>)},
     top_k : {None}, temperature : {None}]

\* Tasks that set a sampling temperature
TemperedTasks ==
    {[t EXCEPT !.temperature = Some(1)] :
        t \in {m \in MessageTasks : Len(m.attachments) <= 1 /\ ~m.dry_run}}

Tasks == MessageTasks \cup ImageTasks \cup TemperedTasks

\* The models a task is performed on: names list() keeps
SampleModels == {Gpt5Mini, Gpt41Mini, Gpt4o0513, Gpt40613, Whisper1, DallE3}

DefaultTask == CHOOSE t \in ImageTasks : TRUE

BodyNoImage  == <<"Model", "does", "not", "support", "image", "inputs">>
BodyStuffing == <<"Invalid", "input", ":", "context", "stuffing">>
BodyInvalid  == <<"Invalid", "input">>
BodyOther    == <<"rate", "limit">>

SampleBodies == {BodyNoImage, BodyStuffing, BodyInvalid, BodyOther}

ErrorStatuses == {400, 500}

OutputHi ==
    << [content |-> << [type |-> "reasoning", text |-> <<"x">>],
                       [type |-> "output_text", text |-> <<"h", "i">>] >>] >>
OutputBlank ==
    << [content |-> << [type |-> "summary_text", text |-> <<" ">>] >>],
       [content |-> << [type |-> "output_text", text |-> <<"\n">>] >>] >>
OutputOther ==
    << [content |-> << [type |-> "refusal", text |-> <<"n", "o">>] >>] >>

SampleOutputs == {OutputHi, OutputBlank, OutputOther}

\* What a request to the responses endpoint can come back with: a transport
\* failure, a success status with a body that parses or not, a failure status
HttpResponses ==
    {[transport_ok |-> FALSE, status |-> 0, body |-> <<>>, json_ok |-> FALSE,
      output |-> <<>>]}
    \cup {[transport_ok |-> TRUE, status |-> 200, body |-> <<>>, json_ok |-> TRUE,
           output |-> o] : o \in SampleOutputs}
    \cup {[transport_ok |-> TRUE, status |-> 200, body |-> <<>>, json_ok |-> FALSE,
           output |-> <<>>]}
    \cup {[transport_ok |-> TRUE, status |-> st, body |-> b, json_ok |-> FALSE,
           output |-> <<>>] : st \in ErrorStatuses, b \in SampleBodies}

NoResponse ==
    [transport_ok |-> FALSE, status |-> -1, body |-> <<>>, json_ok |-> FALSE,
     output |-> <<>>]

UploadOutcomes == {"uploaded", "http_error", "transport_error"}

\* client.chat().create(request): an error, or the choices' message contents
ChatOutcomes ==
    {[ok |-> FALSE, choices |-> <<>>]}
    \cup {[ok |-> TRUE, choices |-> c] :
            c \in {<<>>, <<Some(<<"A">>)>>, <<Some(<<"A">>), Some(<<"B">>)>>,
                   <<Some(<<"A">>), None>>}}

\* client.images().create(request): an error, or the image results
ImageOutcomes ==
    {[ok |-> FALSE, data |-> <<>>]}
    \cup {[ok |-> TRUE, data |-> d] :
            d \in {<<>>, <<[type |-> "Url", value |-> <<"u", "1">>]>>,
                   <<[type |-> "B64Json", value |-> <<"Q">>]>>,
                   <<[type |-> "Url", value |-> <<"u", "1">>],
                     [type |-> "Url", value |-> <<"u", "2">>]>>}}

\* Result<ModelOutput>
Ok(kind, text) ==
    [ok |-> TRUE, kind |-> kind, status |-> 0, body |-> <<>>, text |-> text]

Err(kind) ==
    [ok |-> FALSE, kind |-> kind, status |-> 0, body |-> <<>>, text |-> <<>>]

\* bail!("OpenAI responses API returned {status}: {body}") and its
\* "after vision retry" variant
ErrHttp(kind, status, body) ==
    [ok |-> FALSE, kind |-> kind, status |-> status, body |-> body, text |-> <<>>]

NoResult == [ok |-> FALSE, kind |-> "pending", status |-> 0, body |-> <<>>, text |-> <<>>]

\* A request on the wire
Call(endpoint, model, input, attachment) ==
    [endpoint |-> endpoint, model |-> model, input |-> input,
     attachment |-> attachment, temperature |-> None]

\* http_client.post("https://api.openai.com/v1/responses").json(&request)
Post(request) ==
    [Call("responses", request.model, request.input, 0)
        EXCEPT !.temperature = request.temperature]

NoRequest == [model |-> <<>>, input |-> <<>>, temperature |-> None]

\* ------------------------------------------------------------------------
\* State
\* ------------------------------------------------------------------------

VARIABLES
    cred,             \* whether secrets::env_or_get(API_KEY) succeeds
    self,             \* the OpenAIModel a task is performed on
    task,             \* the ModelTask
    pc,               \* where the perform_task invocation is suspended
    idx,              \* the attachment whose upload is awaited
    uploaded,         \* responses_message_generation: uploaded
    attempted_upload, \* responses_message_generation: attempted_upload
    request,          \* responses_message_generation: request
    result,           \* what perform_task returned
    calls,            \* history: the requests sent, in order
    uploadLog,        \* history: what became of each attachment, in task order
    firstResp,        \* history: the answer to the first responses request
    retryResp,        \* history: the answer to the retried request
    apiResp,          \* history: the answer to the chat or image request
    prior,            \* history: an earlier invocation, for comparison
    listCache,        \* the memoized results of list()
    modelsCache,      \* the memoized results of list_openai_models()
    lc,               \* each caller of list(): where its call is suspended
    lastReturn,       \* history: what the list() call that just returned gave
    sinceFetchOk,     \* history: seconds since the last successful remote listing
    fetchFailed       \* history: the list() call that returned last gave an error

taskVars ==
    <<self, task, pc, idx, uploaded, attempted_upload, request, result, calls,
      uploadLog, firstResp, retryResp, apiResp, prior>>

listVars == <<listCache, modelsCache, lc, lastReturn, sinceFetchOk, fetchFailed>>

vars == <<cred, taskVars, listVars>>

\* ------------------------------------------------------------------------
\* perform_task
\* ------------------------------------------------------------------------

\* perform_task returns r; nothing else changes
Return(r) ==
    /\ pc' = "done"
    /\ result' = r
    /\ UNCHANGED <<idx, uploaded, attempted_upload, request, calls, uploadLog,
                   firstResp, retryResp, apiResp>>

\* A request goes out and the invocation is suspended at `at`
Send(call, at) ==
    /\ pc' = at
    /\ calls' = Append(calls, call)
    /\ UNCHANGED <<idx, uploaded, attempted_upload, request, result, uploadLog,
                   firstResp, retryResp, apiResp>>

\* The dry-run flag never read
is_dry_run_ignored(t) == FALSE

\* task.dry_run
is_dry_run(t) == t.dry_run

\* responses_message_generation: the upload loop from attachment i up to the
\* first attachment whose upload needs the network: what becomes of the
\* attachments passed on the way
RECURSIVE ScanAttachments(_, _)
ScanAttachments(attachments, i) ==
    IF i > Len(attachments) THEN <<>>
    ELSE IF ~should_upload_attachment(attachments[i])
    THEN <<"skipped">> \o ScanAttachments(attachments, i + 1)
    ELSE IF ~attachment_bytes_ok(attachments[i])
    THEN <<"bytes_error">> \o ScanAttachments(attachments, i + 1)
    ELSE <<>>

\* The total-failure check with the attempt flag inverted
TotalUploadFailure_inverted(attempted, up) == ~attempted /\ up = <<>>

\* The total-failure check without the attempt flag
TotalUploadFailure_any_empty(attempted, up) == up = <<>>

\* responses_message_generation: `attempted_upload && uploaded.is_empty()`
TotalUploadFailure(attempted, up) == attempted /\ up = <<>>

\* The upload loop not awaiting an upload: its request goes out and the
\* responses request follows at once
UploadLoop_unawaited(i, up, attempted, log) ==
    LET passed == ScanAttachments(task.attachments, i)
        j      == i + Len(passed)
        tried  == attempted \/ "bytes_error" \in Range(passed)
    IN  /\ uploadLog' = log \o passed
        /\ uploaded' = up
        /\ idx' = j
        /\ UNCHANGED <<firstResp, retryResp, apiResp>>
        /\ IF j <= Len(task.attachments)
           THEN /\ attempted_upload' = TRUE
                /\ request' = ResponsesRequest(self, task, up)
                /\ calls' = calls \o
                      <<Call("files", <<>>, <<>>, j),
                        Post(request')>>
                /\ pc' = "sent"
                /\ UNCHANGED result
           ELSE /\ attempted_upload' = tried
                /\ IF TotalUploadFailure(tried, up)
                   THEN /\ pc' = "done"
                        /\ result' = Err("no_uploads")
                        /\ UNCHANGED <<request, calls>>
                   ELSE /\ request' = ResponsesRequest(self, task, up)
                        /\ calls' = Append(calls,
                              Post(request'))
                        /\ pc' = "sent"
                        /\ UNCHANGED result

\* responses_message_generation from attachment i of the upload loop on, with
\* the loop's variables as given, up to the next request
UploadLoop(i, up, attempted, log) ==
    LET passed == ScanAttachments(task.attachments, i)
        j      == i + Len(passed)
        tried  == attempted \/ "bytes_error" \in Range(passed)
    IN  /\ uploadLog' = log \o passed
        /\ uploaded' = up
        /\ idx' = j
        /\ UNCHANGED <<firstResp, retryResp, apiResp>>
        /\ IF j <= Len(task.attachments)
           THEN /\ attempted_upload' = TRUE
                /\ calls' = Append(calls, Call("files", <<>>, <<>>, j))
                /\ pc' = "uploading"
                /\ UNCHANGED <<request, result>>
           ELSE /\ attempted_upload' = tried
                /\ IF TotalUploadFailure(tried, up)
                   THEN /\ pc' = "done"
                        /\ result' = Err("no_uploads")
                        /\ UNCHANGED <<request, calls>>
                   ELSE /\ request' = ResponsesRequest(self, task, up)
                        /\ calls' = Append(calls,
                              Post(request'))
                        /\ pc' = "sent"
                        /\ UNCHANGED result

\* responses_message_generation going into the upload loop without the key
responses_message_generation_without_key == UploadLoop(1, <<>>, FALSE, <<>>)

\* OpenAIModel::responses_message_generation, up to its first request
responses_message_generation ==
    IF ~cred
    THEN Return(Err("no_api_key"))
    ELSE UploadLoop(1, <<>>, FALSE, <<>>)

\* message_generation with the dry-run return ahead of the capability gate
message_generation_dry_run_first ==
    IF is_dry_run(task)
    THEN Return(Ok("empty", <<>>))
    ELSE IF task.attachments # <<>>
    THEN IF ~supports_attachments(self)
         THEN Return(Err("capability"))
         ELSE responses_message_generation
    ELSE IF ~cred
         THEN Return(Err("no_api_key"))
         ELSE Send(Call("chat", self.model, ChatRequest(self, task).messages, 0),
                   "chat")

\* OpenAIModel::message_generation, up to its first request
message_generation ==
    IF task.attachments # <<>>
    THEN IF ~supports_attachments(self)
         THEN Return(Err("capability"))
         ELSE IF is_dry_run(task)
         THEN Return(Ok("empty", <<>>))
         ELSE responses_message_generation
    ELSE IF is_dry_run(task)
         THEN Return(Ok("empty", <<>>))
         ELSE IF ~cred
         THEN Return(Err("no_api_key"))
         ELSE Send(Call("chat", self.model, ChatRequest(self, task).messages, 0),
                   "chat")

\* image_generation: the prompt, from the text parts of the last message
ImagePrompt(t) ==
    IF t.messages = <<>> THEN <<>>
    ELSE Join(TextsOf(t.messages[Len(t.messages)].parts), <<>>)

\* OpenAIModel::image_generation, up to its request
image_generation ==
    LET size    == IF task.image_size = None THEN None
                   ELSE ImageSizeOf(Unwrap(task.image_size)[1],
                                    Unwrap(task.image_size)[2])
        quality == IF task.image_quality = None THEN None
                   ELSE ImageQualityOf(Unwrap(task.image_quality))
        style   == IF task.image_style = None THEN None
                   ELSE ImageStyleOf(Unwrap(task.image_style))
    IN  IF task.image_size # None /\ size = None
        THEN Return([Err("unsupported_image_size") EXCEPT
                        !.text = Unwrap(task.image_size)])
        ELSE IF task.image_quality # None /\ quality = None
        THEN Return(Err("unsupported_image_quality"))
        ELSE IF task.image_style # None /\ style = None
        THEN Return(Err("unsupported_image_style"))
        ELSE IF is_dry_run(task)
        THEN Return(Ok("empty", <<>>))
        ELSE IF ~cred
        THEN Return(Err("no_api_key"))
        ELSE Send(Call("images", <<>>,
                       <<[prompt |-> ImagePrompt(task), size |-> size,
                          quality |-> quality, style |-> style]>>, 0),
                  "image")

\* Model::perform_task, up to its first request
PerformTask ==
    /\ pc = "ready"
    /\ IF task.kind = "MessageGeneration"
       THEN message_generation
       ELSE image_generation
    /\ UNCHANGED <<cred, self, task, prior, listVars>>

\* A failed upload ending the invocation, as `upload_attachment(..).await?`
\* in the loop would
UploadReturns_fail_fast ==
    /\ pc = "uploading"
    /\ \E outcome \in UploadOutcomes :
          LET attachment == task.attachments[idx]
              up == Append(uploaded,
                           [alias |-> attachment.alias,
                            file_id |-> FileIds[idx],
                            media_type |-> Unwrap(attachment.file.media_type)])
          IN  IF outcome = "uploaded"
              THEN UploadLoop(idx + 1, up, attempted_upload,
                              Append(uploadLog, outcome))
              ELSE /\ pc' = "done"
                   /\ result' = Err("upload")
                   /\ uploadLog' = Append(uploadLog, outcome)
                   /\ UNCHANGED <<idx, uploaded, attempted_upload, request, calls,
                                  firstResp, retryResp, apiResp>>
    /\ UNCHANGED <<cred, self, task, prior, listVars>>

\* upload_attachment's request returns with the given outcome; the upload
\* loop goes on
UploadReturned(outcome) ==
    /\ pc = "uploading"
    /\ LET attachment == task.attachments[idx]
           up == IF outcome = "uploaded"
                 THEN Append(uploaded,
                        [alias |-> attachment.alias,
                         file_id |-> FileIds[idx],
                         media_type |-> Unwrap(attachment.file.media_type)])
                 ELSE uploaded
       IN  UploadLoop(idx + 1, up, attempted_upload, Append(uploadLog, outcome))
    /\ UNCHANGED <<cred, self, task, prior, listVars>>

\* upload_attachment's request returns
UploadReturns == \E outcome \in UploadOutcomes : UploadReturned(outcome)

\* responses_message_generation: a parsed ResponsesResponse becomes the output
ParseResponse(response) ==
    LET text == ResponseText(response.output) IN
    IF text = <<>> THEN Err("no_output_text") ELSE Ok("text", text)

\* The first request posted again when the transport failed
ResponseReturned_resend(response) ==
    /\ pc = "sent"
    /\ firstResp' = response
    /\ UNCHANGED <<idx, uploaded, attempted_upload, uploadLog, retryResp,
                   apiResp>>
    /\ IF ~response.transport_ok
       THEN /\ pc' = "sent"
            /\ calls' = Append(calls, Post(request))
            /\ UNCHANGED <<request, result>>
       ELSE IF is_success(response.status)
       THEN /\ pc' = "done"
            /\ result' = IF response.json_ok THEN ParseResponse(response)
                         ELSE Err("decode")
            /\ UNCHANGED <<request, calls>>
       ELSE IF /\ should_retry_with_vision(self.model, response.body)
               /\ map_to_vision_model(self.model) # None
       THEN /\ request' =
                 RetryRequest(request, Unwrap(map_to_vision_model(self.model)))
            /\ calls' = Append(calls,
                  Post(request'))
            /\ pc' = "retrying"
            /\ UNCHANGED result
       ELSE /\ pc' = "done"
            /\ result' = ErrHttp("provider", response.status, response.body)
            /\ UNCHANGED <<request, calls>>
    /\ UNCHANGED <<cred, self, task, prior, listVars>>

\* responses_message_generation: the first request returns the given answer
ResponseReturned(response) ==
    /\ pc = "sent"
    /\ firstResp' = response
    /\ UNCHANGED <<idx, uploaded, attempted_upload, uploadLog, retryResp,
                   apiResp>>
    /\ IF ~response.transport_ok
       THEN /\ pc' = "done" /\ result' = Err("transport")
            /\ UNCHANGED <<request, calls>>
       ELSE IF is_success(response.status)
       THEN /\ pc' = "done"
            /\ result' = IF response.json_ok THEN ParseResponse(response)
                         ELSE Err("decode")
            /\ UNCHANGED <<request, calls>>
       ELSE IF /\ should_retry_with_vision(self.model, response.body)
               /\ map_to_vision_model(self.model) # None
       THEN /\ request' =
                 RetryRequest(request, Unwrap(map_to_vision_model(self.model)))
            /\ calls' = Append(calls,
                  Post(request'))
            /\ pc' = "retrying"
            /\ UNCHANGED result
       ELSE /\ pc' = "done"
            /\ result' = ErrHttp("provider", response.status, response.body)
            /\ UNCHANGED <<request, calls>>
    /\ UNCHANGED <<cred, self, task, prior, listVars>>

\* responses_message_generation: the first request returns
ResponseReturns == \E response \in HttpResponses : ResponseReturned(response)

\* The retried request's failure going through the fallback again
RetryReturns_again ==
    /\ pc = "retrying"
    /\ \E retry \in HttpResponses :
          /\ retryResp' = retry
          /\ UNCHANGED <<idx, uploaded, attempted_upload, uploadLog, firstResp,
                         apiResp>>
          /\ IF /\ retry.transport_ok
                /\ ~is_success(retry.status)
                /\ should_retry_with_vision(request.model, retry.body)
                /\ map_to_vision_model(request.model) # None
             THEN /\ request' =
                       [request EXCEPT !.model = Unwrap(map_to_vision_model(request.model))]
                  /\ calls' = Append(calls,
                        Post(request'))
                  /\ pc' = "retrying"
                  /\ UNCHANGED result
             ELSE /\ pc' = "done"
                  /\ result' =
                       IF ~retry.transport_ok THEN Err("transport")
                       ELSE IF is_success(retry.status)
                       THEN IF retry.json_ok THEN ParseResponse(retry) ELSE Err("decode")
                       ELSE ErrHttp("provider_after_retry", retry.status, retry.body)
                  /\ UNCHANGED <<request, calls>>
    /\ UNCHANGED <<cred, self, task, prior, listVars>>

\* responses_message_generation: the retried request returns the given answer
RetryReturned(retry) ==
    /\ pc = "retrying"
    /\ retryResp' = retry
    /\ pc' = "done"
    /\ result' =
         IF ~retry.transport_ok THEN Err("transport")
         ELSE IF is_success(retry.status)
         THEN IF retry.json_ok THEN ParseResponse(retry) ELSE Err("decode")
         ELSE ErrHttp("provider_after_retry", retry.status, retry.body)
    /\ UNCHANGED <<idx, uploaded, attempted_upload, uploadLog, firstResp,
                   apiResp, request, calls>>
    /\ UNCHANGED <<cred, self, task, prior, listVars>>

\* responses_message_generation: the retried request returns
RetryReturns == \E retry \in HttpResponses : RetryReturned(retry)

\* message_generation: the chat completion returns the given answer
ChatReturned(response) ==
    /\ pc = "chat"
    /\ apiResp' = Some(response)
    /\ pc' = "done"
    /\ result' =
         IF ~response.ok THEN Err("api")
         ELSE LET choices == response.choices IN
              \* response.choices.pop(): the last choice
              IF choices = <<>> \/ choices[Len(choices)] = None
              THEN Ok("text", <<>>)
              ELSE Ok("text", Unwrap(choices[Len(choices)]))
    /\ UNCHANGED <<idx, uploaded, attempted_upload, request, calls,
                   uploadLog, firstResp, retryResp>>
    /\ UNCHANGED <<cred, self, task, prior, listVars>>

\* message_generation: the chat completion returns
ChatReturns == \E response \in ChatOutcomes : ChatReturned(response)

\* image_generation: the image request returns the given answer
ImageReturned(response) ==
    /\ pc = "image"
    /\ apiResp' = Some(response)
    /\ pc' = "done"
    /\ result' =
         IF ~response.ok THEN Err("api")
         ELSE IF response.data = <<>> THEN Err("empty_data")
         ELSE IF response.data[1].type = "Url"
         THEN Ok("url", response.data[1].value)
         ELSE Err("unexpected_image_type")
    /\ UNCHANGED <<idx, uploaded, attempted_upload, request, calls,
                   uploadLog, firstResp, retryResp>>
    /\ UNCHANGED <<cred, self, task, prior, listVars>>

\* image_generation: the image request returns
ImageReturns == \E response \in ImageOutcomes : ImageReturned(response)

\* ------------------------------------------------------------------------
\* The model catalog: list() and list_openai_models(), both #[cached]
\* ------------------------------------------------------------------------

\* #[cached(time = 120, result = true)] on list()
OuterTTL == 120

\* #[cached(time = 21_600, result = true)] on list_openai_models()
InnerTTL == 21600

\* The concurrent callers of list()
NumCallers == 2

Callers == 1..NumCallers

\* How far the clock moves in one step, in seconds
TickSteps == {60, 3600}

\* What the provider's model listing can return
ListingA == <<Gpt5Mini, Gpt4oMini, Gpt40613>>
ListingB == <<Whisper1, DallE3, Gpt4o>>

Listings == {ListingA, ListingB}

\* A cache of one key: None, or the value with the seconds since it was set
Entry(value) == Some([value |-> value, age |-> 0])

\* The cache lookup of list()'s wrapper: the value, while younger than the
\* time to live
ListCacheGet(cache) ==
    IF cache # None /\ Unwrap(cache).age < OuterTTL
    THEN Some(Unwrap(cache).value)
    ELSE None

\* The listing looked up with list()'s time to live
ModelsCacheGet_outer_ttl(cache) ==
    IF cache # None /\ Unwrap(cache).age < OuterTTL
    THEN Some(Unwrap(cache).value)
    ELSE None

\* The cache lookup of list_openai_models()'s wrapper
ModelsCacheGet(cache) ==
    IF cache # None /\ Unwrap(cache).age < InnerTTL
    THEN Some(Unwrap(cache).value)
    ELSE None

\* A lookup evicts the entry it finds expired
Evicted(cache, hit) == IF hit = None THEN None ELSE cache

\* The wrapper of a cache that stores whatever the call gave
CacheSet_any(cache, res) == Entry(res.value)

\* The cache write of a wrapper with `result = true`: only Ok is stored
CacheSet(cache, res) == IF res.ok THEN Entry(res.value) ELSE cache

Aged(cache, d, ttl) ==
    IF cache = None THEN None
    ELSE Some([Unwrap(cache) EXCEPT !.age = Min(@ + d, ttl)])

Idle == [pc |-> "idle", credSeen |-> FALSE]

NoReturn ==
    [returned |-> FALSE, caller |-> 0, ok |-> FALSE, value |-> <<>>,
     hit |-> FALSE, cred |-> FALSE, credSeen |-> FALSE]

\* The history of the last return, kept while no call returns
Recorded(ret) == IF ret.returned THEN ~ret.ok ELSE fetchFailed

\* list() returns res to caller p
Returned(p, res, hit, seen) ==
    [returned |-> TRUE, caller |-> p, ok |-> res.ok, value |-> res.value,
     hit |-> hit, cred |-> cred, credSeen |-> seen]

ResOk(value) == [ok |-> TRUE, value |-> value]

ResErr == [ok |-> FALSE, value |-> <<>>]

\* A caller enters list(): the wrapper looks the result up
ListCall(p) ==
    /\ lc[p].pc = "idle"
    /\ LET hit == ListCacheGet(listCache) IN
       /\ listCache' = Evicted(listCache, hit)
       /\ IF hit # None
          THEN /\ lastReturn' = Returned(p, ResOk(Unwrap(hit)), TRUE, cred)
               /\ lc' = lc
          ELSE /\ lastReturn' = NoReturn
               /\ lc' = [lc EXCEPT ![p] = [pc |-> "body", credSeen |-> cred]]
    /\ fetchFailed' = Recorded(lastReturn')
    /\ UNCHANGED <<cred, taskVars, modelsCache, sinceFetchOk>>

\* The body of list() without the credential check
ListBody_unchecked(p) ==
    /\ lc[p].pc = "body"
    /\ LET hit == ModelsCacheGet(modelsCache) IN
       /\ modelsCache' = Evicted(modelsCache, hit)
       /\ IF hit # None
          THEN LET res == ResOk(ListedModels(Unwrap(hit))) IN
               /\ listCache' = CacheSet(listCache, res)
               /\ lastReturn' = Returned(p, res, FALSE, lc[p].credSeen)
               /\ lc' = [lc EXCEPT ![p] = Idle]
          ELSE /\ lc' = [lc EXCEPT ![p] = [pc |-> "fetching",
                                           credSeen |-> lc[p].credSeen]]
               /\ lastReturn' = NoReturn
               /\ UNCHANGED listCache
    /\ fetchFailed' = Recorded(lastReturn')
    /\ UNCHANGED <<cred, taskVars, sinceFetchOk>>

\* The body of list() up to the remote listing: the credential check, then
\* list_openai_models(0), whose wrapper looks the listing up
ListBody(p) ==
    /\ lc[p].pc = "body"
    /\ IF ~cred
       THEN /\ listCache' = CacheSet(listCache, ResOk(<<>>))
            /\ lastReturn' = Returned(p, ResOk(<<>>), FALSE, lc[p].credSeen)
            /\ lc' = [lc EXCEPT ![p] = Idle]
            /\ UNCHANGED modelsCache
       ELSE LET hit == ModelsCacheGet(modelsCache) IN
            /\ modelsCache' = Evicted(modelsCache, hit)
            /\ IF hit # None
               THEN LET res == ResOk(ListedModels(Unwrap(hit))) IN
                    /\ listCache' = CacheSet(listCache, res)
                    /\ lastReturn' = Returned(p, res, FALSE, TRUE)
                    /\ lc' = [lc EXCEPT ![p] = Idle]
               ELSE /\ lc' = [lc EXCEPT ![p] = [pc |-> "fetching", credSeen |-> TRUE]]
                    /\ lastReturn' = NoReturn
                    /\ UNCHANGED listCache
    /\ fetchFailed' = Recorded(lastReturn')
    /\ UNCHANGED <<cred, taskVars, sinceFetchOk>>

\* The remote listing returns: both wrappers store what is Ok
FetchReturns(p) ==
    /\ lc[p].pc = "fetching"
    /\ \E fetched \in {ResErr} \cup {ResOk(data) : data \in Listings} :
          LET res == IF fetched.ok THEN ResOk(ListedModels(fetched.value))
                     ELSE ResErr
          IN  /\ modelsCache' = CacheSet(modelsCache, fetched)
              /\ listCache' = CacheSet(listCache, res)
              /\ lastReturn' = Returned(p, res, FALSE, lc[p].credSeen)
              /\ sinceFetchOk' = IF fetched.ok THEN Some(0) ELSE sinceFetchOk
    /\ lc' = [lc EXCEPT ![p] = Idle]
    /\ fetchFailed' = Recorded(lastReturn')
    /\ UNCHANGED <<cred, taskVars>>

\* The user sets the API key
SetCredential ==
    /\ ~cred
    /\ cred' = TRUE
    /\ lc' = [p \in Callers |->
                IF lc[p].pc = "idle" THEN lc[p] ELSE [lc[p] EXCEPT !.credSeen = TRUE]]
    /\ lastReturn' = NoReturn
    /\ UNCHANGED <<taskVars, listCache, modelsCache, sinceFetchOk, fetchFailed>>

\* The API key is removed
UnsetCredential ==
    /\ cred
    /\ cred' = FALSE
    /\ lastReturn' = NoReturn
    /\ UNCHANGED <<taskVars, listCache, modelsCache, lc, sinceFetchOk, fetchFailed>>

\* Time passes
Tick ==
    /\ \E d \in TickSteps :
          /\ listCache' = Aged(listCache, d, OuterTTL)
          /\ modelsCache' = Aged(modelsCache, d, InnerTTL)
          /\ sinceFetchOk' = IF sinceFetchOk = None THEN None
                             ELSE Some(Min(Unwrap(sinceFetchOk) + d, InnerTTL))
    /\ lastReturn' = NoReturn
    /\ UNCHANGED <<cred, taskVars, lc, fetchFailed>>

\* ------------------------------------------------------------------------
\* Specifications
\* ------------------------------------------------------------------------

ListIdle ==
    /\ listCache = None
    /\ modelsCache = None
    /\ lc = [p \in Callers |-> Idle]
    /\ lastReturn = NoReturn
    /\ sinceFetchOk = None
    /\ fetchFailed = FALSE

TaskFresh ==
    /\ idx = 0
    /\ uploaded = <<>>
    /\ attempted_upload = FALSE
    /\ request = NoRequest
    /\ result = NoResult
    /\ calls = <<>>
    /\ uploadLog = <<>>
    /\ firstResp = NoResponse
    /\ retryResp = NoResponse
    /\ apiResp = None

\* One perform_task invocation, on any sample model and task
Init ==
    /\ cred \in BOOLEAN
    /\ self \in {OpenAIModel(name) : name \in SampleModels}
    /\ task \in Tasks
    /\ pc = "ready"
    /\ TaskFresh
    /\ prior = None
    /\ ListIdle

Next ==
    \/ PerformTask
    \/ UploadReturns
    \/ ResponseReturns
    \/ RetryReturns
    \/ ChatReturns
    \/ ImageReturns

Spec == Init /\ [][Next]_vars

\* The catalog, with concurrent callers of list()
ListInit ==
    /\ cred \in BOOLEAN
    /\ self = OpenAIModel(DallE3)
    /\ task = DefaultTask
    /\ pc = "off"
    /\ TaskFresh
    /\ prior = None
    /\ ListIdle

ListNext ==
    \/ \E p \in Callers : ListCall(p)
    \/ \E p \in Callers : ListBody(p)
    \/ \E p \in Callers : FetchReturns(p)
    \/ SetCredential
    \/ UnsetCredential
    \/ Tick

ListSpec == ListInit /\ [][ListNext]_vars

\* The catalog, with one call of list() at a time
SeqListCall(p) ==
    /\ \A q \in Callers : lc[q].pc = "idle"
    /\ ListCall(p)

SeqListNext ==
    \/ \E p \in Callers : SeqListCall(p)
    \/ \E p \in Callers : ListBody(p)
    \/ \E p \in Callers : FetchReturns(p)
    \/ SetCredential
    \/ UnsetCredential
    \/ Tick

SeqListSpec == ListInit /\ [][SeqListNext]_vars

\* ------------------------------------------------------------------------
\* One invocation of message generation, on longer conversations
\* ------------------------------------------------------------------------

\* The longest conversation of a task
MaxMessages == 4

ConversationMessages ==
    {[role |-> "System", parts |-> <<[type |-> "Text", value |-> <<"s">>], AudioPart>>],
     [role |-> "User", parts |-> <<[type |-> "Text", value |-> <<"u">>], ImagePart>>],
     [role |-> "User", parts |-> <<[type |-> "Text", value |-> <<"v">>]>>],
     [role |-> "Model", parts |-> <<[type |-> "Text", value |-> <<"m">>]>>]}

ConversationTasks ==
    [kind : {"MessageGeneration"},
     messages : SeqsUpTo(ConversationMessages, MaxMessages),
     attachments : {<<>>, <<[alias |-> Aliases[1], file |-> FileTxt]>>},
     dry_run : {FALSE},
     image_size : {None}, image_quality : {None}, image_style : {None},
     top_k : {None}, temperature : {None}]

ConversationInit ==
    /\ cred = TRUE
    /\ self \in {OpenAIModel(Gpt5Mini), OpenAIModel(Gpt4o0513)}
    /\ task \in ConversationTasks
    /\ pc = "ready"
    /\ TaskFresh
    /\ prior = None
    /\ ListIdle

ConversationNext ==
    \/ PerformTask
    \/ ResponseReturns
    \/ RetryReturns
    \/ ChatReturns

ConversationSpec == ConversationInit /\ [][ConversationNext]_vars

\* ------------------------------------------------------------------------
\* Two invocations of perform_task: the second on a task that differs from
\* the first in one non-fatal condition, given the answers the first got
\* ------------------------------------------------------------------------

PairFiles == {FilePng, FileBadPng, FileTxt}

PairTasks ==
    {t \in Tasks :
        /\ \A i \in 1..Len(t.attachments) : t.attachments[i].file \in PairFiles
        /\ t.image_size \in {None, Some(<<1024, 1024>>), Some(<<1000, 1000>>)}
        /\ t.image_quality = None
        /\ t.image_style = None
        /\ t.temperature = None}

PairModels == {Gpt5Mini, Gpt40613, DallE3}

\* The tasks that differ from t in one non-fatal condition only: a message
\* part that is dropped, an option that is ignored, an attachment that is
\* skipped
Twins(t) ==
    {[diff |-> "part",
      task |-> [t EXCEPT !.messages[i].parts = Append(@, AudioPart)]] :
        i \in 1..Len(t.messages)}
    \cup {[diff |-> "option", task |-> [t EXCEPT !.top_k = Some(40)]]}
    \cup (IF t.kind = "MessageGeneration"
          THEN {[diff |-> "attachment",
                 task |-> [t EXCEPT !.attachments =
                             Append(@, [alias |-> Aliases[Len(@) + 1],
                                        file |-> FileTxt])]]}
          ELSE {})

\* The first invocation is over; the second begins on a twin of its task
Restart ==
    /\ pc = "done"
    /\ prior = None
    /\ \E twin \in Twins(task) :
          /\ task' = twin.task
          /\ prior' = Some([task |-> task, diff |-> twin.diff, result |-> result,
                            uploadLog |-> uploadLog, firstResp |-> firstResp,
                            retryResp |-> retryResp, apiResp |-> apiResp])
    /\ pc' = "ready"
    /\ idx' = 0
    /\ uploaded' = <<>>
    /\ attempted_upload' = FALSE
    /\ request' = NoRequest
    /\ result' = NoResult
    /\ calls' = <<>>
    /\ uploadLog' = <<>>
    /\ firstResp' = NoResponse
    /\ retryResp' = NoResponse
    /\ apiResp' = None
    /\ UNCHANGED <<cred, self, listVars>>

\* The outcomes of the uploads that went to the provider, in order
NetworkOutcomes(log) == SelectSeq(log, LAMBDA o : o \in UploadOutcomes)

\* The second invocation's requests are answered as the first's were: its
\* k-th upload as the first's k-th upload, and so on
Replay ==
    /\ prior # None
    /\ \/ /\ pc = "uploading"
          /\ LET answers == NetworkOutcomes(Unwrap(prior).uploadLog)
                 k == Len(SelectSeq(calls, LAMBDA c : c.endpoint = "files"))
             IN  /\ k <= Len(answers)
                 /\ UploadReturned(answers[k])
       \/ /\ pc = "sent"
          /\ Unwrap(prior).firstResp # NoResponse
          /\ ResponseReturned(Unwrap(prior).firstResp)
       \/ /\ pc = "retrying"
          /\ Unwrap(prior).retryResp # NoResponse
          /\ RetryReturned(Unwrap(prior).retryResp)
       \/ /\ pc = "chat"
          /\ Unwrap(prior).apiResp # None
          /\ ChatReturned(Unwrap(Unwrap(prior).apiResp))
       \/ /\ pc = "image"
          /\ Unwrap(prior).apiResp # None
          /\ ImageReturned(Unwrap(Unwrap(prior).apiResp))

\* The first invocation's requests are answered in any way
FirstInvocation ==
    /\ prior = None
    /\ \/ UploadReturns
       \/ ResponseReturns
       \/ RetryReturns
       \/ ChatReturns
       \/ ImageReturns

PairInit ==
    /\ cred \in BOOLEAN
    /\ self \in {OpenAIModel(name) : name \in PairModels}
    /\ task \in PairTasks
    /\ pc = "ready"
    /\ TaskFresh
    /\ prior = None
    /\ ListIdle

PairNext ==
    \/ PerformTask
    \/ FirstInvocation
    \/ Restart
    \/ Replay

PairSpec == PairInit /\ [][PairNext]_vars

\* perform_task when every request that was sent is answered in the end,
\* with a response or with a transport failure
LiveSpec ==
    /\ PairInit
    /\ [][Next]_vars
    /\ WF_vars(PerformTask)
    /\ WF_vars(UploadReturns)
    /\ WF_vars(ResponseReturns)
    /\ WF_vars(RetryReturns)
    /\ WF_vars(ChatReturns)
    /\ WF_vars(ImageReturns)

\* ------------------------------------------------------------------------
\* Properties
\* ------------------------------------------------------------------------

ResponsesCalls == SelectSeq(calls, LAMBDA c : c.endpoint = "responses")

\* The attachment-limited families
LimitedFamily(model) ==
    StartsWith(model, Gpt5Prefix) \/ StartsWith(model, Gpt41Prefix)

\* The documented substitute of an attachment-limited model
DocumentedSubstitute(model) ==
    IF StartsWith(model, Gpt5Prefix) THEN Gpt41Mini ELSE Gpt4oMini

\* The fallback signature of an error body
HasSignature(body) ==
    \/ Contains(body, InvalidInput) /\ Contains(body, ContextStuffing)
    \/ Contains(body, NoImageInputs)

FirstFailed == firstResp.transport_ok /\ ~is_success(firstResp.status)

RetryFailed == retryResp.transport_ok /\ ~is_success(retryResp.status)

\* C1: a non-success answer "does not support image inputs" to the rich
\* request of a gpt-5* or gpt-4.1* model is followed by exactly one retry, on
\* gpt-4.1-mini or gpt-4o-mini respectively; when the retry returns
\* non-success too, the invocation fails with the retry's status and body.
C1_RetryOnceOnSubstitute ==
    (/\ FirstFailed
     /\ LimitedFamily(self.model)
     /\ Contains(firstResp.body, NoImageInputs))
    => /\ pc \in {"retrying", "done"}
       /\ Len(ResponsesCalls) = 2
       /\ ResponsesCalls[1].model = self.model
       /\ ResponsesCalls[2].model = DocumentedSubstitute(self.model)
       /\ (pc = "done" /\ RetryFailed)
            => /\ ~result.ok
               /\ result.kind = "provider_after_retry"
               /\ result.status = retryResp.status
               /\ result.body = retryResp.body

C1_Witness ==
    /\ pc = "done"
    /\ self.model = Gpt5Mini
    /\ FirstFailed
    /\ firstResp.body = BodyNoImage
    /\ RetryFailed
    /\ retryResp.status # firstResp.status
    /\ retryResp.body # firstResp.body

UploadAttempted == \E i \in 1..Len(uploadLog) : uploadLog[i] # "skipped"

NoneUploaded == \A i \in 1..Len(uploadLog) : uploadLog[i] # "uploaded"

UploadsOver == Len(uploadLog) = Len(task.attachments)

\* C2: when at least one upload was attempted and every attempted upload
\* failed, perform_task fails and no request goes to the responses endpoint.
C2_TotalUploadFailureIsFatal ==
    (UploadsOver /\ UploadAttempted /\ NoneUploaded)
    => /\ pc = "done"
       /\ ~result.ok
       /\ result.kind = "no_uploads"
       /\ ResponsesCalls = <<>>

C2_Witness ==
    /\ pc = "done"
    /\ Len(uploadLog) = 2
    /\ "skipped" \notin Range(uploadLog)
    /\ "bytes_error" \in Range(uploadLog)
    /\ "http_error" \in Range(uploadLog)

\* C3: the empty list that list() returns without a credential is not
\* cached: a call of list() made with a credential configured is never
\* answered with an empty list.
C3_EmptyListNotCached ==
    (lastReturn.returned /\ lastReturn.cred)
    => ~(lastReturn.ok /\ lastReturn.value = <<>>)

\* C4: a call of list() during which no credential was configured returns
\* the empty list.
C4_EmptyWithoutCredential ==
    (lastReturn.returned /\ ~lastReturn.credSeen)
    => (lastReturn.ok /\ lastReturn.value = <<>>)

SupportedSizes ==
    {<<256, 256>>, <<512, 512>>, <<1024, 1024>>, <<1024, 1792>>, <<1792, 1024>>}

\* No input kind other than text is declared by the model
TextOnly == self.inputs \cap {"Image", "Audio", "Video"} = {}

\* What a task fails validation with, "" when it passes
ValidationError ==
    IF task.kind = "MessageGeneration"
    THEN IF task.attachments # <<>> /\ TextOnly THEN "capability" ELSE ""
    ELSE IF task.image_size # None /\ Unwrap(task.image_size) \notin SupportedSizes
    THEN "unsupported_image_size"
    ELSE IF /\ task.image_quality # None
            /\ ToLowercase(Unwrap(task.image_quality))
                 \notin {Std, Standard, Hd, HighDefinition}
    THEN "unsupported_image_quality"
    ELSE IF /\ task.image_style # None
            /\ ToLowercase(Unwrap(task.image_style))
                 \notin {Nat3, Natural, Viv, Vivid}
    THEN "unsupported_image_style"
    ELSE ""

\* C5, as claimed: a dry-run task makes no network call and results in the
\* empty output.
C5_DryRunAlwaysEmpty ==
    task.dry_run
    => /\ calls = <<>>
       /\ pc = "done" => result = Ok("empty", <<>>)

\* C5, amended: a dry-run task makes no network call and needs no
\* credential; it results in the empty output when the task passes
\* validation, and in the validation error otherwise.
C5_DryRunNoNetwork ==
    task.dry_run
    => /\ calls = <<>>
       /\ pc \in {"ready", "done"}
       /\ pc = "done"
            => IF ValidationError = ""
               THEN result = Ok("empty", <<>>)
               ELSE ~result.ok /\ result.kind = ValidationError

C5_Witness ==
    /\ pc = "done"
    /\ task.dry_run
    /\ ~cred
    /\ task.attachments # <<>>
    /\ ~TextOnly
    /\ result = Ok("empty", <<>>)

\* C6: a message-generation task with attachments on a model that declares
\* none of image, audio and video input fails at once, without any network
\* call, whatever the credential and the dry-run flag.
C6_CapabilityGate ==
    (task.kind = "MessageGeneration" /\ task.attachments # <<>> /\ TextOnly)
    => /\ calls = <<>>
       /\ pc \in {"ready", "done"}
       /\ pc = "done" => ~result.ok /\ result.kind = "capability"

C6_Witness ==
    /\ pc = "done"
    /\ task.kind = "MessageGeneration"
    /\ task.attachments # <<>>
    /\ TextOnly
    /\ cred
    /\ ~task.dry_run
    /\ should_upload_attachment(task.attachments[1])

\* C7: a second rich request is sent exactly when the first one returned a
\* non-success status, the model is of an attachment-limited family and the
\* body has the fallback signature; after any other non-success answer one
\* rich request was sent, the request's model is unchanged and the invocation
\* fails with that answer's status and body.
C7_RetryOnlyOnSignature ==
    /\ Len(ResponsesCalls) >= 2
         <=> (FirstFailed /\ LimitedFamily(self.model) /\ HasSignature(firstResp.body))
    /\ (FirstFailed /\ ~(LimitedFamily(self.model) /\ HasSignature(firstResp.body)))
         => /\ Len(ResponsesCalls) = 1
            /\ request.model = self.model
            /\ pc = "done"
            /\ result = ErrHttp("provider", firstResp.status, firstResp.body)

C7_Witness ==
    /\ pc = "done"
    /\ FirstFailed
    /\ LimitedFamily(self.model)
    /\ firstResp.body = BodyInvalid
    /\ Len(ResponsesCalls) = 1

\* C8: an invocation sends at most two rich requests; the retry's answer
\* ends it, also when that answer has the fallback signature again and the
\* substitute is itself of an attachment-limited family.
C8_AtMostTwoRichRequests ==
    /\ Len(ResponsesCalls) <= 2
    /\ retryResp # NoResponse => pc = "done"

C8_Witness ==
    /\ pc = "done"
    /\ Len(ResponsesCalls) = 2
    /\ LimitedFamily(ResponsesCalls[2].model)
    /\ RetryFailed
    /\ HasSignature(retryResp.body)

\* C9: the remote listing is single-flight: at most one fetch is in
\* progress at a time.
C9_SingleFlight ==
    Cardinality({p \in Callers : lc[p].pc = "fetching"}) <= 1

\* C10: with one call of list() at a time, a call that finds the cached list
\* younger than 120 s returns it without running list()'s body, and no remote
\* listing is started less than 21600 s after a remote listing succeeded.
C10_FreshValueServedFromCache ==
    [][\A p \in Callers :
         /\ (/\ lc[p].pc = "idle"
             /\ lc'[p].pc # "idle" \/ (lastReturn'.returned /\ lastReturn'.caller = p)
             /\ listCache # None
             /\ Unwrap(listCache).age < OuterTTL)
            => /\ lc'[p].pc = "idle"
               /\ lastReturn'.hit
               /\ lastReturn'.ok
               /\ lastReturn'.value = Unwrap(listCache).value
         /\ (lc[p].pc # "fetching" /\ lc'[p].pc = "fetching")
            => (sinceFetchOk = None \/ Unwrap(sinceFetchOk) >= InnerTTL)]_vars

\* The list recomputed from the cached listing, after the cached list expired
C10_Witness ==
    /\ lastReturn.returned
    /\ lastReturn.ok
    /\ ~lastReturn.hit
    /\ lastReturn.value # <<>>
    /\ sinceFetchOk # None
    /\ Unwrap(sinceFetchOk) >= OuterTTL
    /\ Unwrap(sinceFetchOk) < InnerTTL

\* The media-type prefixes of the files that are uploaded
UploadPrefixes == {ImageSlash, AudioSlash, VideoSlash}

\* The declared media type is, letter for letter, application/pdf or one that
\* starts with image/, audio/ or video/
ListedType(file) ==
    /\ file.media_type # None
    /\ \/ Unwrap(file.media_type) = ApplicationPdf
       \/ \E prefix \in UploadPrefixes : StartsWith(Unwrap(file.media_type), prefix)

\* The same, with application/pdf in any letter case
ListedTypeAnyCasePdf(file) ==
    /\ file.media_type # None
    /\ \/ ToLowercase(Unwrap(file.media_type)) = ApplicationPdf
       \/ \E prefix \in UploadPrefixes : StartsWith(Unwrap(file.media_type), prefix)

FilesCalls == SelectSeq(calls, LAMBDA c : c.endpoint = "files")

\* A content block of a request input names the i-th attachment of the task
MentionsAttachment(input, i) ==
    \E m \in 1..Len(input) : \E k \in 1..Len(input[m].content) :
        LET block == input[m].content[k] IN
        \/ block.type = "input_text" /\ block.text = <<"Attachment", Aliases[i]>>
        \/ block.type = "input_file" /\ block.file_id = FileIds[i]
        \/ block.type = "input_image" /\ block.file_id = Some(FileIds[i])

\* What C11 says of the attachments the upload loop has passed, with
\* eligible(file) for "the media type is one of the uploaded kinds"
UploadedIff(eligible(_)) ==
    \A i \in 1..Len(uploadLog) :
        LET file == task.attachments[i].file IN
        /\ (uploadLog[i] # "skipped") <=> eligible(file)
        /\ uploadLog[i] \in UploadOutcomes
           => \E c \in 1..Len(FilesCalls) : FilesCalls[c].attachment = i
        /\ ~eligible(file)
           => /\ \A c \in 1..Len(FilesCalls) : FilesCalls[c].attachment # i
              /\ \A c \in 1..Len(ResponsesCalls) :
                    ~MentionsAttachment(ResponsesCalls[c].input, i)
              /\ (result.kind = "no_uploads"
                  => \E j \in 1..Len(uploadLog) : eligible(task.attachments[j].file))

\* C11 as stated: an attachment is taken for upload exactly when its media
\* type is present and is application/pdf or starts with image/, audio/ or
\* video/; any other attachment is skipped without error, is in no upload
\* request and has no content block in a responses request.
C11_UploadedIffListedType == UploadedIff(ListedType)

\* C11, amended: the same with application/pdf compared ignoring ASCII letter
\* case (APPLICATION/PDF is uploaded) and the three prefixes compared letter
\* for letter (Image/png is skipped).
C11_UploadedIffListedTypeAnyCasePdf == UploadedIff(ListedTypeAnyCasePdf)

\* An upper-case PDF uploaded and referenced, a capitalised image type skipped
C11_Witness ==
    /\ Len(task.attachments) = 2
    /\ task.attachments[1].file = FilePdfUpper
    /\ task.attachments[2].file = FileImageUpper
    /\ uploadLog = <<"uploaded", "skipped">>
    /\ Len(ResponsesCalls) = 1
    /\ MentionsAttachment(ResponsesCalls[1].input, 1)

\* The content blocks of a request input, message after message
RECURSIVE Blocks(_)
Blocks(input) ==
    IF input = <<>> THEN <<>> ELSE Head(input).content \o Blocks(Tail(input))

\* The file identifiers a request input refers to, in order
FileRefs(input) ==
    LET refs == SelectSeq(Blocks(input),
                  LAMBDA b : \/ b.type = "input_file"
                             \/ b.type = "input_image" /\ b.file_id # None)
    IN  [k \in 1..Len(refs) |->
           IF refs[k].type = "input_file" THEN refs[k].file_id
           ELSE Unwrap(refs[k].file_id)]

\* The attachment labels of a request input, in order
AliasLabels(input) ==
    LET labels == SelectSeq(Blocks(input),
                    LAMBDA b : /\ b.type = "input_text"
                               /\ Len(b.text) = 2
                               /\ b.text[1] = "Attachment")
    IN  [k \in 1..Len(labels) |-> labels[k].text[2]]

\* The attachments whose upload succeeded, in task order
UploadedIndices ==
    SelectSeq([i \in 1..Len(uploadLog) |-> i], LAMBDA i : uploadLog[i] = "uploaded")

UploadFailures == {"bytes_error", "http_error", "transport_error"}

SomeUploaded == \E i \in 1..Len(uploadLog) : uploadLog[i] = "uploaded"

SomeUploadFailed == \E i \in 1..Len(uploadLog) : uploadLog[i] \in UploadFailures

\* C12: when some but not all attempted uploads fail, the responses request
\* is sent and carries the content blocks of exactly the uploaded attachments,
\* in task order; and a failed upload does not end the upload loop: once
\* entered, the loop passes every attachment of the task.
C12_PartialUploadFailure ==
    /\ (uploadLog # <<>> /\ pc # "uploading") => UploadsOver
    /\ (UploadsOver /\ SomeUploaded /\ SomeUploadFailed)
       => /\ result.kind # "no_uploads"
          /\ Len(ResponsesCalls) >= 1
          /\ \A c \in 1..Len(ResponsesCalls) :
                /\ FileRefs(ResponsesCalls[c].input) =
                     [k \in 1..Len(UploadedIndices) |-> FileIds[UploadedIndices[k]]]
                /\ AliasLabels(ResponsesCalls[c].input) =
                     [k \in 1..Len(UploadedIndices) |-> Aliases[UploadedIndices[k]]]

\* The first upload rejected, the second accepted, the task answered
C12_Witness ==
    /\ uploadLog = <<"http_error", "uploaded">>
    /\ pc = "done"
    /\ result.ok
    /\ FileRefs(ResponsesCalls[1].input) = <<FileIds[2]>>

\* A message-generation task whose attachments are all of kinds that are not
\* uploaded, on a model that takes attachments, with a credential
AllSkippedTask ==
    /\ task.kind = "MessageGeneration"
    /\ task.attachments # <<>>
    /\ \A i \in 1..Len(task.attachments) :
          ~ListedTypeAnyCasePdf(task.attachments[i].file)
    /\ ~TextOnly
    /\ ~task.dry_run
    /\ cred

\* The answer that ended the responses exchange
FinalResp == IF retryResp # NoResponse THEN retryResp ELSE firstResp

\* Some output_text or summary_text block has a character that is not
\* whitespace
VisibleText(output) ==
    \E o \in 1..Len(output) : \E k \in 1..Len(output[o].content) :
        LET block == output[o].content[k] IN
        /\ block.type \in {"output_text", "summary_text"}
        /\ \E ch \in 1..Len(block.text) : block.text[ch] \notin Whitespace

\* C13: when every attachment is skipped on a capability-compatible model, no
\* upload is attempted, the total-failure check does not fire, the responses
\* request carries the translated messages and nothing else, and a successful
\* answer with non-empty text is returned as a successful, non-empty output.
C13_AllSkippedProceeds ==
    (AllSkippedTask /\ pc # "ready")
    => /\ FilesCalls = <<>>
       /\ ~attempted_upload
       /\ \A i \in 1..Len(uploadLog) : uploadLog[i] = "skipped"
       /\ result.kind # "no_uploads"
       /\ Len(ResponsesCalls) >= 1
       /\ \A c \in 1..Len(ResponsesCalls) :
             /\ ResponsesCalls[c].input = messages_to_response_input(task)
             /\ FileRefs(ResponsesCalls[c].input) = <<>>
             /\ AliasLabels(ResponsesCalls[c].input) = <<>>
       /\ (/\ pc = "done"
           /\ FinalResp.transport_ok
           /\ is_success(FinalResp.status)
           /\ FinalResp.json_ok
           /\ VisibleText(FinalResp.output))
          => /\ result.ok
             /\ result.text # <<>>

\* A task with one text/plain attachment, answered
C13_Witness ==
    /\ AllSkippedTask
    /\ Len(task.attachments) = 1
    /\ task.attachments[1].file = FileTxt
    /\ pc = "done"
    /\ calls = ResponsesCalls
    /\ Len(calls) = 1
    /\ result.ok
    /\ result.text # <<>>

\* The second invocation is over
BothDone == prior # None /\ pc = "done"

\* C14 as stated: two tasks that differ only in a dropped message part, an
\* ignored option or the presence of a skipped attachment succeed or fail
\* alike, on the same model and with the same answers of the provider.
C14_SameOutcome ==
    BothDone => result.ok = Unwrap(prior).result.ok

\* The two tasks take the same path: the skipped attachment is added to a
\* task that already has attachments
SamePath ==
    Unwrap(prior).diff = "attachment" => Unwrap(prior).task.attachments # <<>>

\* C14, amended: the same, with the skipped attachment added to a task that
\* has at least one attachment already; the second invocation then asks for
\* the answers the first got, no more, and returns the same result.
C14_SameOutcomeOnSamePath ==
    (prior # None /\ SamePath)
    => /\ pc = "uploading"
          => Len(FilesCalls) <= Len(NetworkOutcomes(Unwrap(prior).uploadLog))
       /\ pc = "sent" => Unwrap(prior).firstResp # NoResponse
       /\ pc = "retrying" => Unwrap(prior).retryResp # NoResponse
       /\ pc \in {"chat", "image"} => Unwrap(prior).apiResp # None
       /\ pc = "done"
          => /\ result.ok = Unwrap(prior).result.ok
             /\ result = Unwrap(prior).result
             /\ firstResp = Unwrap(prior).firstResp
             /\ retryResp = Unwrap(prior).retryResp
             /\ apiResp = Unwrap(prior).apiResp
             /\ NetworkOutcomes(uploadLog) = NetworkOutcomes(Unwrap(prior).uploadLog)

\* A skipped attachment next to an uploaded one, both invocations answered
C14_Witness ==
    /\ BothDone
    /\ Unwrap(prior).diff = "attachment"
    /\ Unwrap(prior).uploadLog = <<"uploaded">>
    /\ uploadLog = <<"uploaded", "skipped">>
    /\ result.ok
    /\ Unwrap(prior).result.ok

ChatCalls == SelectSeq(calls, LAMBDA c : c.endpoint = "chat")

\* The provider's name of a message role
ProviderRole(role) ==
    CASE role = "System" -> "system"
      [] role = "User" -> "user"
      [] role = "Model" -> "assistant"

\* The value of the first text part of a message
FirstText(message) ==
    LET texts == SelectSeq(message.parts, LAMBDA p : p.type = "Text")
    IN  texts[1].value

\* C15: the messages of a chat request and those of a responses request
\* (nothing being spliced in) are as many as the task's messages, and the
\* i-th of them has the role of the i-th task message (system, user,
\* assistant for System, User, Model) and carries its text.
C15_TranslationPreservesMessages ==
    /\ \A c \in 1..Len(ChatCalls) :
          LET messages == ChatCalls[c].input IN
          /\ Len(messages) = Len(task.messages)
          /\ \A i \in 1..Len(messages) :
                /\ messages[i].role = ProviderRole(task.messages[i].role)
                /\ IF task.messages[i].role = "User"
                   THEN messages[i].content[1].text = FirstText(task.messages[i])
                   ELSE messages[i].content = FirstText(task.messages[i])
    /\ \A c \in 1..Len(ResponsesCalls) :
          LET input == ResponsesCalls[c].input IN
          /\ Len(input) = Len(task.messages)
          /\ \A i \in 1..Len(input) :
                /\ input[i].role = ProviderRole(task.messages[i].role)
                /\ input[i].content[1].text = FirstText(task.messages[i])

SystemUserModelUser == <<"System", "User", "Model", "User">>

\* A [system, user, model, user] conversation sent on each path
C15_Witness ==
    /\ [i \in 1..Len(task.messages) |-> task.messages[i].role] = SystemUserModelUser
    /\ task.messages[2] # task.messages[4]
    /\ pc = "done"
    /\ Len(calls) >= 1
    /\ [i \in 1..Len(calls[1].input) |-> calls[1].input[i].role]
         = <<"system", "user", "assistant", "user">>

\* C16: without a credential a task that is not a dry run sends no request
\* (no upload, chat, responses or image request), passes no attachment
\* through the upload loop, and fails; it fails for the missing credential
\* when it passes validation.
C16_NoCredentialNoNetwork ==
    (~cred /\ ~task.dry_run)
    => /\ calls = <<>>
       /\ uploadLog = <<>>
       /\ pc \in {"ready", "done"}
       /\ pc = "done"
          => /\ ~result.ok
             /\ ValidationError = "" => result.kind = "no_api_key"

\* An uploadable attachment on a capable model, and no credential
C16_Witness ==
    /\ ~cred
    /\ ~task.dry_run
    /\ task.attachments # <<>>
    /\ ListedType(task.attachments[1].file)
    /\ ~TextOnly
    /\ pc = "done"
    /\ result.kind = "no_api_key"
    /\ calls = <<>>

\* A success answer whose body parsed and whose output_text and summary_text
\* blocks, joined and trimmed, leave nothing
BlankAnswer(response) ==
    /\ response.transport_ok
    /\ is_success(response.status)
    /\ response.json_ok
    /\ ~VisibleText(response.output)

\* C17: on the responses path a success answer without visible text fails
\* the task, be it the answer to the first request or to the retried one; on
\* the image path a success answer without image results fails the task.
C17_EmptyOutputIsFatal ==
    pc = "done"
    => /\ (retryResp = NoResponse /\ BlankAnswer(firstResp))
          => (~result.ok /\ result.kind = "no_output_text")
       /\ BlankAnswer(retryResp)
          => (~result.ok /\ result.kind = "no_output_text")
       /\ (/\ task.kind = "ImageGeneration"
           /\ apiResp # None
           /\ Unwrap(apiResp).ok
           /\ Unwrap(apiResp).data = <<>>)
          => (~result.ok /\ result.kind = "empty_data")

\* A retried request answered with whitespace only
C17_Witness ==
    /\ pc = "done"
    /\ Len(ResponsesCalls) = 2
    /\ BlankAnswer(retryResp)
    /\ retryResp.output = OutputBlank
    /\ result.kind = "no_output_text"

ImagesCalls == SelectSeq(calls, LAMBDA c : c.endpoint = "images")

\* The provider's size option of each supported (width, height) pair
SizeOption ==
    [pair \in SupportedSizes |->
        CASE pair = <<256, 256>> -> "S256x256"
          [] pair = <<512, 512>> -> "S512x512"
          [] pair = <<1024, 1024>> -> "S1024x1024"
          [] pair = <<1024, 1792>> -> "S1024x1792"
          [] pair = <<1792, 1024>> -> "S1792x1024"]

\* C18: an image task with one of the five supported (width, height) pairs
\* sends, when nothing else stops it, an image request whose size option is
\* that size; with any other pair it fails with the unsupported-size error
\* that names the width and the height, and sends no image request.
C18_ImageSize ==
    (task.kind = "ImageGeneration" /\ task.image_size # None /\ pc # "ready")
    => LET pair == Unwrap(task.image_size) IN
       IF pair \in SupportedSizes
       THEN /\ result.kind # "unsupported_image_size"
            /\ \A c \in 1..Len(ImagesCalls) :
                  ImagesCalls[c].input[1].size = Some(SizeOption[pair])
            /\ (ValidationError = "" /\ ~task.dry_run /\ cred)
               => Len(ImagesCalls) = 1
       ELSE /\ pc = "done"
            /\ ~result.ok
            /\ result.kind = "unsupported_image_size"
            /\ result.text = pair
            /\ calls = <<>>

\* A portrait image requested and delivered
C18_Witness ==
    /\ task.kind = "ImageGeneration"
    /\ task.image_size = Some(<<1024, 1792>>)
    /\ pc = "done"
    /\ Len(ImagesCalls) = 1
    /\ ImagesCalls[1].input[1].size = Some("S1024x1792")
    /\ result.ok

UnsupportedSize ==
    task.image_size # None /\ Unwrap(task.image_size) \notin SupportedSizes

UnsupportedQuality ==
    /\ task.image_quality # None
    /\ ToLowercase(Unwrap(task.image_quality)) \notin {Std, Standard, Hd, HighDefinition}

UnsupportedStyle ==
    /\ task.image_style # None
    /\ ToLowercase(Unwrap(task.image_style)) \notin {Nat3, Natural, Viv, Vivid}

ImageValidationErrors ==
    {"unsupported_image_size", "unsupported_image_quality", "unsupported_image_style"}

\* C19: a dry run is still validated: with attachments on a model without
\* image, audio or video input it fails with the capability error, and an
\* image task with an unsupported size, quality or style fails with that
\* validation error; neither returns the empty output.
C19_DryRunStillValidated ==
    (task.dry_run /\ pc = "done")
    => /\ (task.kind = "MessageGeneration" /\ task.attachments # <<>> /\ TextOnly)
          => result = Err("capability")
       /\ (task.kind = "ImageGeneration" /\ UnsupportedSize)
          => (~result.ok /\ result.kind = "unsupported_image_size")
       /\ (task.kind = "ImageGeneration"
           /\ (UnsupportedSize \/ UnsupportedQuality \/ UnsupportedStyle))
          => (~result.ok /\ result.kind \in ImageValidationErrors)
       /\ (task.kind = "ImageGeneration" /\ ~UnsupportedSize /\ UnsupportedQuality)
          => result = Err("unsupported_image_quality")
       /\ (/\ task.kind = "ImageGeneration"
           /\ ~UnsupportedSize /\ ~UnsupportedQuality /\ UnsupportedStyle)
          => result = Err("unsupported_image_style")

\* A dry run with an attachment on a text-only model, refused
C19_Witness ==
    /\ task.dry_run
    /\ task.kind = "MessageGeneration"
    /\ task.attachments # <<>>
    /\ self.inputs = {"Text"}
    /\ pc = "done"
    /\ result = Err("capability")
    /\ calls = <<>>

\* C20: without a credential the inner tier is bypassed: the body of list()
\* run without a credential returns the empty list and neither starts the
\* remote listing nor touches the cache of list_openai_models; a remote
\* listing starts only with a credential, and an entry of that cache is
\* written only when a remote listing returns.
C20_InnerTierBypassed ==
    [][/\ \A p \in Callers :
            /\ (lc[p].pc = "body" /\ lc'[p].pc # "body" /\ ~cred)
               => /\ lc'[p].pc = "idle"
                  /\ modelsCache' = modelsCache
                  /\ sinceFetchOk' = sinceFetchOk
                  /\ lastReturn'.returned
                  /\ lastReturn'.ok
                  /\ lastReturn'.value = <<>>
            /\ (lc[p].pc # "fetching" /\ lc'[p].pc = "fetching") => cred
       /\ (/\ modelsCache' # modelsCache
           /\ modelsCache' # None
           /\ Unwrap(modelsCache').age = 0)
          => \E p \in Callers : lc[p].pc = "fetching" /\ lc'[p].pc = "idle"]_vars

\* The body of list() has run without a credential, and the cache of
\* list_openai_models is as empty as it was
C20_Witness ==
    /\ lastReturn.returned
    /\ ~lastReturn.hit
    /\ ~lastReturn.credSeen
    /\ ~lastReturn.cred
    /\ lastReturn.value = <<>>
    /\ modelsCache = None
    /\ sinceFetchOk = None

\* The content blocks that stand for the i-th attachment of the task, once
\* uploaded: its alias, then the file as an image or as a file
BlocksOfAttachment(i) ==
    << [type |-> "input_text", text |-> <<"Attachment", Aliases[i]>>],
       IF StartsWith(Unwrap(task.attachments[i].file.media_type), ImageSlash)
       THEN [type |-> "input_image", file_id |-> Some(FileIds[i]), image_url |-> None]
       ELSE [type |-> "input_file", file_id |-> FileIds[i]] >>

\* The blocks of the uploaded attachments, in upload order
RECURSIVE BlocksOfAttachments(_)
BlocksOfAttachments(indices) ==
    IF indices = <<>> THEN <<>>
    ELSE BlocksOfAttachment(Head(indices)) \o BlocksOfAttachments(Tail(indices))

\* The task's last message of role User, 0 when there is none
LastUserMessage ==
    LET users == {i \in 1..Len(task.messages) : task.messages[i].role = "User"}
    IN  IF users = {} THEN 0 ELSE CHOOSE i \in users : \A j \in users : j <= i

\* C21: the input of a responses request is the translated messages with
\* the blocks of the uploaded attachments (alias text, then input image for
\* image/* and input file otherwise), in upload order, after the content of
\* the last user message, the message count unchanged; with no user message
\* one user message carrying them is added at the end; with nothing uploaded
\* the input is the translated messages.
C21_AttachmentSplicing ==
    \A c \in 1..Len(ResponsesCalls) :
        LET input == ResponsesCalls[c].input
            translated == messages_to_response_input(task)
            blocks == BlocksOfAttachments(UploadedIndices)
            n == Len(task.messages)
        IN  IF UploadedIndices = <<>>
            THEN input = translated
            ELSE IF LastUserMessage # 0
            THEN /\ Len(input) = n
                 /\ \A i \in 1..n :
                       input[i] =
                         IF i = LastUserMessage
                         THEN [translated[i] EXCEPT !.content = @ \o blocks]
                         ELSE translated[i]
            ELSE /\ Len(input) = n + 1
                 /\ SubSeq(input, 1, n) = translated
                 /\ input[n + 1] = [role |-> "user", content |-> blocks]

\* An image and a PDF spliced after the content of the second user message
C21_Witness ==
    /\ Len(ResponsesCalls) >= 1
    /\ Len(task.messages) = 4
    /\ LastUserMessage = 3
    /\ uploadLog = <<"uploaded", "uploaded">>
    /\ task.attachments[1].file = FilePng
    /\ task.attachments[2].file = FilePdf
    /\ Len(ResponsesCalls[1].input) = 4
    /\ Len(ResponsesCalls[1].input[3].content) = 5
    /\ ResponsesCalls[1].input[3].content[3].type = "input_image"
    /\ ResponsesCalls[1].input[3].content[5].type = "input_file"

\* The requests that have been answered (a response or a failure)
Answered ==
    Len(NetworkOutcomes(uploadLog))
    + (IF firstResp # NoResponse THEN 1 ELSE 0)
    + (IF retryResp # NoResponse THEN 1 ELSE 0)
    + (IF apiResp # None THEN 1 ELSE 0)

\* The requests sent and not yet answered
InFlight == Len(calls) - Answered

\* C22: the requests of one invocation go out one after the other: at most
\* one is unanswered at any time; the uploads go in task order, each after
\* every earlier attachment has been dealt with; the responses request goes
\* after every attachment has been dealt with and every upload answered, and
\* the retried request after the first answer.
C22_SequentialRequests ==
    /\ InFlight \in {0, 1}
    /\ (InFlight = 1) <=> (pc \in {"uploading", "sent", "retrying", "chat", "image"})
    /\ \A a \in 1..Len(FilesCalls) :
          /\ Len(uploadLog) >= FilesCalls[a].attachment - 1
          /\ \A b \in 1..Len(FilesCalls) :
                a < b => /\ FilesCalls[a].attachment < FilesCalls[b].attachment
                         /\ Len(uploadLog) >= FilesCalls[a].attachment
    /\ \A i \in 1..Len(calls) : \A j \in 1..Len(calls) :
          (i < j /\ calls[i].endpoint = "responses") => calls[j].endpoint = "responses"
    /\ Len(ResponsesCalls) >= 1
       => /\ UploadsOver
          /\ Len(NetworkOutcomes(uploadLog)) = Len(FilesCalls)
    /\ Len(ResponsesCalls) >= 2 => firstResp # NoResponse

\* Two uploads, the request and its retry, each answered before the next
C22_Witness ==
    /\ pc = "done"
    /\ Len(FilesCalls) = 2
    /\ Len(ResponsesCalls) = 2
    /\ Len(calls) = 4
    /\ InFlight = 0

\* The payload of a file cannot be extracted: no inline content, or content
\* declared base64 that is not valid base64
PayloadMissing(file) ==
    \/ file.content = None
    \/ /\ file.transfer_encoding # None
       /\ ToLowercase(Unwrap(file.transfer_encoding)) = Base64Word
       /\ ~IsValidBase64(Unwrap(file.content))

OnlyPayloadFailures ==
    /\ \E i \in 1..Len(uploadLog) : uploadLog[i] = "bytes_error"
    /\ \A i \in 1..Len(uploadLog) : uploadLog[i] \in {"bytes_error", "skipped"}

\* C23: an attachment of an uploaded kind whose payload cannot be extracted
\* fails without an upload request for it; it counts as an attempted and
\* failed upload (when nothing else is uploaded the task fails with the
\* no-uploads error, even if no upload request was sent at all); and the
\* loop goes on to the attachments after it.
C23_PayloadFailure ==
    /\ \A i \in 1..Len(uploadLog) :
          LET file == task.attachments[i].file IN
          /\ (uploadLog[i] = "bytes_error")
             <=> (ListedTypeAnyCasePdf(file) /\ PayloadMissing(file))
          /\ uploadLog[i] = "bytes_error"
             => \A c \in 1..Len(FilesCalls) : FilesCalls[c].attachment # i
    /\ (UploadsOver /\ OnlyPayloadFailures)
       => /\ pc = "done"
          /\ result = Err("no_uploads")
          /\ calls = <<>>
    /\ (UploadsOver /\ ~SomeUploaded /\ SomeUploadFailed)
       => (pc = "done" /\ result = Err("no_uploads"))
    /\ (pc # "uploading"
        /\ \E i \in 1..Len(uploadLog) : uploadLog[i] = "bytes_error")
       => UploadsOver

\* An image with invalid base64 passed over, the PDF after it uploaded
C23_Witness ==
    /\ Len(task.attachments) = 2
    /\ task.attachments[1].file = FileBadPng
    /\ task.attachments[2].file = FilePdf
    /\ uploadLog = <<"bytes_error", "uploaded">>
    /\ Len(FilesCalls) = 1
    /\ FilesCalls[1].attachment = 2
    /\ Len(ResponsesCalls) = 1
    /\ FileRefs(ResponsesCalls[1].input) = <<FileIds[2]>>
    /\ pc = "done"

\* C24: on the chat path the returned text is the content of the first
\* choice's message of the response, also when there are several choices.
C24_FirstChoiceReturned ==
    (/\ pc = "done"
     /\ task.kind = "MessageGeneration"
     /\ apiResp # None
     /\ Unwrap(apiResp).ok
     /\ Unwrap(apiResp).choices # <<>>)
    => /\ result.ok
       /\ result.text =
            IF Unwrap(apiResp).choices[1] = None THEN <<>>
            ELSE Unwrap(Unwrap(apiResp).choices[1])

\* C25: whenever should_retry_with_vision holds of a model and an error
\* body, map_to_vision_model gives a substitute, and one that is not the
\* model itself; so a retry-eligible failure of the first request is followed
\* by a second request on another model, never by the failure with the first
\* answer's status and body.
C25_EligibleFailureIsRetried ==
    /\ \A name \in SampleModels \cup Unversioned : \A body \in SampleBodies :
          should_retry_with_vision(name, body)
          => /\ map_to_vision_model(name) # None
             /\ Unwrap(map_to_vision_model(name)) # name
    /\ (FirstFailed /\ should_retry_with_vision(self.model, firstResp.body))
       => /\ Len(ResponsesCalls) = 2
          /\ ResponsesCalls[2].model # ResponsesCalls[1].model
          /\ ResponsesCalls[2].model = Unwrap(map_to_vision_model(self.model))
          /\ result.kind # "provider"

\* gpt-4.1-mini, itself the substitute of gpt-5, retried on gpt-4o-mini
C25_Witness ==
    /\ self.model = Gpt41Mini
    /\ FirstFailed
    /\ should_retry_with_vision(self.model, firstResp.body)
    /\ Len(ResponsesCalls) = 2
    /\ ResponsesCalls[2].model = Gpt4oMini

\* The attachments of the task that should_upload_attachment accepts
EligibleIndices ==
    {i \in 1..Len(task.attachments) : should_upload_attachment(task.attachments[i])}

\* C26: the retried request is the first request with another model: the
\* same messages, the same file references, the same generation parameters.
\* No attachment is uploaded again for it: no upload call follows a rich
\* request, no attachment has two upload calls, and the upload calls of an
\* invocation are at most its eligible attachments.
C26_RetryChangesModelOnly ==
    /\ Len(ResponsesCalls) = 2
       => /\ ResponsesCalls[2].input = ResponsesCalls[1].input
          /\ FileRefs(ResponsesCalls[2].input) = FileRefs(ResponsesCalls[1].input)
          /\ ResponsesCalls[2].temperature = ResponsesCalls[1].temperature
          /\ ResponsesCalls[2].temperature = task.temperature
          /\ ResponsesCalls[2] =
                [ResponsesCalls[1] EXCEPT !.model = ResponsesCalls[2].model]
    /\ \A i, j \in 1..Len(calls) :
          (i < j /\ calls[i].endpoint = "responses") => calls[j].endpoint # "files"
    /\ \A i, j \in 1..Len(FilesCalls) :
          i # j => FilesCalls[i].attachment # FilesCalls[j].attachment
    /\ \A i \in 1..Len(FilesCalls) : FilesCalls[i].attachment \in EligibleIndices
    /\ Len(FilesCalls) <= Cardinality(EligibleIndices)

\* A retried request that carries a file reference and a temperature
C26_Witness ==
    /\ Len(ResponsesCalls) = 2
    /\ task.temperature = Some(1)
    /\ FileRefs(ResponsesCalls[2].input) # <<>>
    /\ Len(FilesCalls) = 1
    /\ pc = "done"

\* C27: when every request is answered in the end, an invocation ends, with
\* an output or an error, and stays ended; it makes at most one upload call
\* for each eligible attachment and at most two responses requests; a
\* transport failure of the first request or of the retried one ends the
\* invocation with no further request.
C27_Terminates ==
    /\ <>(pc = "done")
    /\ [](pc = "done" => result # NoResult)
    /\ [][pc # "done"]_vars
    /\ [](/\ Len(FilesCalls) <= Cardinality(EligibleIndices)
          /\ Len(ResponsesCalls) <= 2)
    /\ []((firstResp # NoResponse /\ ~firstResp.transport_ok)
          => /\ pc = "done"
             /\ result = Err("transport")
             /\ Len(ResponsesCalls) = 1)
    /\ []((retryResp # NoResponse /\ ~retryResp.transport_ok)
          => /\ pc = "done"
             /\ result = Err("transport")
             /\ Len(ResponsesCalls) = 2)

\* The longest invocation: two uploads, the first request, and a retry that
\* ends in a transport failure
C27_Witness ==
    /\ pc = "done"
    /\ Len(FilesCalls) = 2
    /\ Cardinality(EligibleIndices) = 2
    /\ Len(ResponsesCalls) = 2
    /\ retryResp # NoResponse
    /\ ~retryResp.transport_ok

\* C28: a remote listing that fails leaves nothing in either cache and
\* list() returns the error; the call of list() that comes next is not
\* answered from a cache, and with a credential it starts the remote listing
\* again.
C28_FailedFetchNotCached ==
    [][/\ (lastReturn'.returned /\ ~lastReturn'.ok)
          => /\ listCache' = None
             /\ modelsCache' = None
             /\ fetchFailed'
       /\ \A p \in Callers :
            /\ (lc[p].pc = "fetching" /\ lc'[p].pc = "idle" /\ modelsCache' = None)
               => /\ lastReturn'.returned
                  /\ lastReturn'.caller = p
                  /\ ~lastReturn'.ok
            /\ (fetchFailed /\ lc[p].pc = "idle" /\ lc'[p] # lc[p])
               => /\ lc'[p].pc = "body"
                  /\ ~lastReturn'.returned
            /\ (fetchFailed /\ lc[p].pc = "body" /\ cred /\ lc'[p] # lc[p])
               => /\ lc'[p].pc = "fetching"
                  /\ ~lastReturn'.returned
       /\ fetchFailed => ~(lastReturn'.returned /\ lastReturn'.hit)]_vars

\* The remote listing started again by the call that follows a failed one,
\* after an earlier listing had succeeded and expired
C28_Witness ==
    /\ fetchFailed
    /\ cred
    /\ sinceFetchOk # None
    /\ \E p \in Callers : lc[p].pc = "fetching"
    /\ listCache = None
    /\ modelsCache = None

====
